---- MODULE Spec2Model ----
(***************************************************************************)
(* A model of jeandiogo/locker: advisory, reentrant file locks shared by   *)
(* independent processes, built on open(2), flock(2), stat(2), unlink(2).  *)
(*                                                                         *)
(* The repository holds several revisions of locker.hpp.  Three are        *)
(* modelled, each from its own source text:                                *)
(*   - the identity-keyed locker with the release protocol                 *)
(*     (src/unnamed/part_004): Spec, and the fork test of src/test.cpp     *)
(*     run against it: SpecTest, and SpecTestFair with a fair scheduler;   *)
(*     a fork of a process that holds a file: SpecFork; its I/O helpers    *)
(*     read and write: SpecIO; paths that name a directory or a FIFO:      *)
(*     SpecKind; lockfiles deleted by others while held: SpecDelete; its   *)
(*     typed binary read: SpecRead;                                        *)
(*   - the identity-keyed locker with the memory-mapped view               *)
(*     (src/locker.hpp, lines 725-1177): SpecMap, and SpecView for the     *)
(*     element access of a view;                                           *)
(*   - the filename-keyed locker with the multi-file calls                 *)
(*     (src/locker.hpp, lines 342-637): SpecName, SpecLists for two        *)
(*     processes locking two files in opposite orders, and SpecXio for its *)
(*     xread and xwrite called by several threads of a process;            *)
(*   - two threads of one process using the identity-keyed locker of       *)
(*     src/unnamed/part_004 next to another process: SpecThreads;          *)
(*   - guards of the filename-keyed locker constructed inside the scope of *)
(*     other guards: SpecNested; its try_lock over a list of files:        *)
(*     SpecTryList;                                                        *)
(*   - the release of part_004 with its unlink and its close as separate   *)
(*     steps, so that other processes run between them: SpecRelease;       *)
(*   - the permission bits of the lockfiles lock creates, for every umask: *)
(*     SpecMode.                                                           *)
(* All of them run on one model of the kernel: directory entries, inodes,  *)
(* open file descriptions and the flock owner of every inode.              *)
(***************************************************************************)
EXTENDS Integers, Sequences, FiniteSets, Bags, TLC

\* ------------------------------------------------------------------ bounds

\* processes that use the library in Spec, SpecMap and SpecName
NumProcs == 2
\* children forked by the test program (NUM_FORKS of src/test.cpp, scaled down)
NumForks == 3
\* inode numbers the file system can hand out
MaxInode == 3
\* descriptors one process can have open at one time
MaxFd == 3
\* live lock guards one thread can hold
MaxGuards == 2
\* file names one multi-file call is given
MaxNames == 3
\* live lock guards one thread of the filename-keyed locker can hold
MaxNameGuards == 1
\* bytes of the longest file that is mapped
MaxBytes == 8
\* bytes of a page of memory (scaled down with the files)
PageSize == 4

\* ------------------------------------------------------- program constants

\* st_dev of every file of the model: all paths live on one device
Dev == 1

Max(x, y) == IF x >= y THEN x ELSE y

Procs == 1 .. Max(NumProcs, NumForks)
\* a call is made by a thread, the registry and the descriptors belong to
\* its process.  Every process has the thread that bears its number; the
\* first process has a second thread, SecondThread.
SecondThread == Max(NumProcs, NumForks) + 1
Threads == Procs \cup {SecondThread}
ProcOf(t) == IF t = SecondThread THEN 1 ELSE t
\* getpid()
Pid(p) == p
Clients == 1 .. NumProcs
Children == 1 .. NumForks

Inodes == 1 .. MaxInode
\* an open file description is named by the process that opened it and the
\* descriptor number it got there
Fds == 1 .. MaxFd
Ofds == Procs \X Fds
NoFd == <<0, 0>>

\* path strings, as sequences of characters.  PathA and PathL are two names
\* (hard links) of one file.
PathA == <<"a">>
PathL == <<"l">>
PathB == <<"b">>
PathC == <<"c">>
\* two paths that name, when they name anything, a directory and a FIFO
PathDir == <<"dir">>
PathFifo == <<"fifo">>
Paths == {PathA, PathL, PathB, PathC, PathDir, PathFifo}
\* open(path, O_RDWR) of a directory fails with EISDIR; of a FIFO it succeeds
IsDirectory(path) == path = PathDir
\* fsync of a descriptor on a FIFO fails with EINVAL
CanFsync(path) == path # PathFifo
\* the paths the clients of Spec lock
LockPaths == {PathA, PathL}
\* what readlink gives for a descriptor whose directory entry was removed:
\* "<path> (deleted)", a name no file has
Deleted == <<"(deleted)">>

\* file contents are sequences of bytes
EmptyFile == << >>
WriteChoices == {EmptyFile, <<1>>}

VARIABLES
    dir,        \* kernel: path -> inode number, 0 when no such file
    content,    \* kernel: inode -> bytes of the file
    ofd,        \* kernel: open file description -> [ino, path, refs]
    flk,        \* kernel: inode -> the open file description holding LOCK_EX, NoFd when none
    lockfiles,  \* process -> registry (std::map<key_t, value_t>) as a set of entries
    mtx,        \* process -> thread holding lockfiles_mutex, 0 when free
    pc,         \* thread -> position inside a library call
    call,       \* thread -> locals of the call in progress
    guards,     \* thread -> bag of live lock_guard_t objects, each [id, keep]
    ret,        \* thread -> outcome of the last finished call
    tdata,      \* test program: child -> value read from the file, -1 before the read
    tstage,     \* caller of the library: thread -> position in main() of the test
                \* program, or the I/O helper it is in, "none" outside both
    views,      \* thread -> bag of open mappings (memory_map_t objects), each
                \* [id, descriptor, data_size, width, synced]
    descriptors, \* process -> registry of the filename-keyed locker (std::map<std::string, int>)
    umask,      \* kernel: process -> file mode creation mask
    mode        \* kernel: inode -> permission bits of a file created under
                \* SpecMode, 0 where the bits are not followed

kernelVars == <<dir, content, ofd, flk>>
libVars == <<lockfiles, mtx, pc, call, guards, ret>>
testVars == <<tdata, tstage>>
mapVars == <<views>>
nameVars == <<descriptors>>
modeVars == <<umask, mode>>
otherVars == <<testVars, mapVars, nameVars, modeVars>>
vars == <<dir, content, ofd, flk, lockfiles, mtx, pc, call, guards, ret, tdata, tstage,
          views, descriptors, umask, mode>>

\* ------------------------------------------------------------------ kernel

FreeOfd == [ino |-> 0, path |-> Deleted, refs |-> {}]

\* st_nlink of an inode
NLink(d, i) == Cardinality({p \in Paths : d[p] = i})

\* an inode number is free when nothing links to it and nothing has it open
InodeFree(d, of, i) == NLink(d, i) = 0 /\ \A o \in Ofds : of[o].ino # i

FreeInodes(d, of) == {i \in Inodes : InodeFree(d, of, i)}
\* the descriptor numbers process p has free (a description inherited through
\* fork keeps its number in the child)
FreeFds(of, p) ==
    {n \in Fds : of[<<p, n>>].ino = 0 /\ \A q \in Procs : p \notin of[<<q, n>>].refs}

Min(S) == CHOOSE x \in S : \A y \in S : x <= y

\* open(path, O_RDWR | O_CREAT, 0666) succeeds when a descriptor is free,
\* the path names no directory, and the file exists or an inode is free to
\* create it
CanOpen(d, of, path, p) ==
    /\ FreeFds(of, p) # {}
    /\ ~IsDirectory(path)
    /\ d[path] # 0 \/ FreeInodes(d, of) # {}

\* the directory after open(O_CREAT): a missing file is created
DirAfterOpen(d, of, path) ==
    IF d[path] # 0 THEN d ELSE [d EXCEPT ![path] = Min(FreeInodes(d, of))]

\* the descriptor open returns (the lowest free one)
OpenedFd(of, p) == <<p, Min(FreeFds(of, p))>>

\* the descriptor table after open by process p
OfdAfterOpen(d, of, path, p) ==
    [of EXCEPT ![OpenedFd(of, p)] =
        [ino |-> DirAfterOpen(d, of, path)[path], path |-> path, refs |-> {p}]]

\* close(o) by process p: the description goes away with its last reference
OfdAfterClose(of, o, p) ==
    IF of[o].refs \ {p} = {} THEN [of EXCEPT ![o] = FreeOfd]
    ELSE [of EXCEPT ![o].refs = @ \ {p}]

\* a flock is owned by the open file description and dropped when it goes away
FlkAfterClose(of, fl, o, p) ==
    IF of[o].refs \ {p} = {} /\ of[o].ino # 0 /\ fl[of[o].ino] = o
    THEN [fl EXCEPT ![of[o].ino] = NoFd]
    ELSE fl

\* the content of an inode that is neither linked nor open is gone
ContentAfter(d, of, c) ==
    [i \in Inodes |-> IF InodeFree(d, of, i) THEN EmptyFile ELSE c[i]]

\* readlink("/proc/self/fd/<o>"): the path the descriptor was opened by, or
\* "<path> (deleted)" once that directory entry no longer names the file
FdPath(d, of, o) ==
    IF of[o].path \in Paths /\ d[of[o].path] = of[o].ino THEN of[o].path ELSE Deleted

\* stat(path) succeeds when the path names a file
StatOk(d, path) == path \in Paths /\ d[path] # 0

\* ----------------------------------------------- registry (src/unnamed/part_004)

Key(i, dv) == [inode |-> i, device |-> dv]
NoKey == Key(0, 0)

\* key_t operator<
KeyLess(x, y) ==
    x.inode < y.inode \/ (x.inode = y.inode /\ x.device < y.device)

\* std::map finds a key by equivalence under operator<
KeyEquiv(x, y) == ~KeyLess(x, y) /\ ~KeyLess(y, x)

ContainsNever(reg, id) == FALSE

\* std::map::contains
Contains(reg, id) == \E e \in reg : KeyEquiv(e.key, id)

\* std::map::at
At(reg, id) == CHOOSE e \in reg : KeyEquiv(e.key, id)

\* std::map::erase(key)
Erase(reg, id) == {e \in reg : ~KeyEquiv(e.key, id)}

\* std::map::emplace: no insertion when an equivalent key is present
Emplace(reg, e) == IF Contains(reg, e.key) THEN reg ELSE reg \cup {e}

Value(k, o, n, pid) == [key |-> k, descriptor |-> o, num_locks |-> n, pid |-> pid]

\* a memory_map_t before its constructor has filled it in: id, descriptor
\* and data_size as declared, width the sizeof of its data_t, synced whether
\* msync has written the mapping back
NoView ==
    [id |-> NoKey, descriptor |-> NoFd, data_size |-> 0, width |-> 0,
     synced |-> FALSE]

\* the locals of a call: its arguments, the descriptor it has open, and for
\* a member function of memory_map_t its caller, the key lock returned and
\* the object itself
NoCall ==
    [path |-> Deleted, nb |-> FALSE, keep |-> FALSE, desc |-> NoFd,
     op |-> "lock_guard", id |-> NoKey, view |-> NoView, index |-> 0]

\* a call of thread t ends: the scoped_lock on lockfiles_mutex is released
Finish(t, outcome) ==
    /\ pc' = [pc EXCEPT ![t] = "idle"]
    /\ call' = [call EXCEPT ![t] = NoCall]
    /\ mtx' = [mtx EXCEPT ![ProcOf(t)] = 0]
    /\ ret' = [ret EXCEPT ![t] = outcome]

IncrementLost(n) == n

\* num_locks after lock's increment
Increment(n) == n + 1

\* one pass of lock<nb>(path)'s loop up to the flock: open, fstat, registry
\* lookup.  The pass ends the call (already held, or open failed) or leaves
\* the thread in front of flock with lockfiles_mutex held.
LockPass(t, path, nb, keep) ==
    LET p == ProcOf(t) IN
    IF ~CanOpen(dir, ofd, path, p)
    THEN \* descriptor < 0: throw "could not open file"
         /\ Finish(t, "throw")
         /\ UNCHANGED <<kernelVars, lockfiles, guards>>
    ELSE LET d1 == DirAfterOpen(dir, ofd, path)
             o == OpenedFd(ofd, p)
             of1 == OfdAfterOpen(dir, ofd, path, p)
             id == Key(of1[o].ino, Dev)
         IN
         /\ dir' = d1
         /\ IF Contains(lockfiles[p], id) /\ At(lockfiles[p], id).pid = Pid(p)
            THEN \* already held by this process: close, count one more
                 LET e == At(lockfiles[p], id) IN
                 /\ ofd' = OfdAfterClose(of1, o, p)
                 /\ flk' = FlkAfterClose(of1, flk, o, p)
                 /\ content' = ContentAfter(d1, ofd', content)
                 /\ lockfiles' = [lockfiles EXCEPT ![p] =
                        (@ \ {e}) \cup {[e EXCEPT !.num_locks = Increment(@)]}]
                 /\ guards' = [guards EXCEPT ![t] =
                        @ (+) SetToBag({[id |-> id, keep |-> keep]})]
                 /\ Finish(t, IF ofd[e.descriptor].path = path
                              THEN "counted" ELSE "counted_alias")
            ELSE \* an entry of another pid (inherited through fork) is dropped
                 /\ ofd' = of1
                 /\ lockfiles' = [lockfiles EXCEPT ![p] =
                        IF Contains(@, id) THEN Erase(@, id) ELSE @]
                 /\ pc' = [pc EXCEPT ![t] = "flock"]
                 /\ call' = [call EXCEPT ![t] =
                        [NoCall EXCEPT !.path = path, !.nb = nb,
                                       !.keep = keep, !.desc = o]]
                 /\ mtx' = [mtx EXCEPT ![p] = t]
                 /\ UNCHANGED <<content, flk, guards, ret>>

\* lock_guard<nb, keep>(path): the constructor enters lock<nb>(path), takes
\* lockfiles_mutex and makes the first pass of the loop
LockGuard(t, path, nb, keep) ==
    /\ pc[t] = "idle"
    /\ BagCardinality(guards[t]) < MaxGuards
    /\ mtx[ProcOf(t)] = 0
    /\ LockPass(t, path, nb, keep)

\* a further pass of the loop, after the re-stat sent the thread round again
LockOpen(t) ==
    /\ pc[t] = "open"
    /\ LockPass(t, call[t].path, call[t].nb, call[t].keep)

FlockGrantedAlways(fl, o, i) == TRUE

FlockGrantedNever(fl, o, i) == FALSE

\* flock(descriptor, LOCK_EX) is granted when no other open file description
\* holds the lock
FlockGranted(fl, o, i) == fl[i] = NoFd \/ fl[i] = o

StillLinkedUnchecked(d, path, i) == TRUE

StillLinkedByName(d, path, i) == StatOk(d, path)

\* lock's re-stat of the path after the flock: the path still names the
\* locked inode
StillLinked(d, path, i) ==
    StatOk(d, path) /\ NLink(d, d[path]) > 0 /\ d[path] = i

\* flock(descriptor, LOCK_EX [| LOCK_NB]) and what follows it.  The call waits
\* while another open file description holds the lock; with LOCK_NB it fails
\* instead.  Once granted, the path is stat-ed again: the lock is registered
\* when the path still names the locked inode, otherwise the descriptor is
\* closed and the loop goes round again.
LockFlock(t) ==
    LET p == ProcOf(t)
        o == call[t].desc
        i == ofd[o].ino
        path == call[t].path
        id == Key(i, Dev)
    IN
    /\ pc[t] = "flock"
    /\ IF FlockGranted(flk, o, i)
       THEN IF StillLinked(dir, path, i)
            THEN /\ flk' = [flk EXCEPT ![i] = o]
                 /\ lockfiles' = [lockfiles EXCEPT ![p] =
                        Emplace(@, Value(id, o, 1, Pid(p)))]
                 /\ guards' = [guards EXCEPT ![t] =
                        @ (+) SetToBag({[id |-> id, keep |-> call[t].keep]})]
                 /\ Finish(t, "locked")
                 /\ UNCHANGED <<dir, content, ofd>>
            ELSE /\ ofd' = OfdAfterClose(ofd, o, p)
                 /\ flk' = FlkAfterClose(ofd, flk, o, p)
                 /\ content' = ContentAfter(dir, ofd', content)
                 /\ pc' = [pc EXCEPT ![t] = "open"]
                 /\ call' = [call EXCEPT ![t].desc = NoFd]
                 /\ UNCHANGED <<dir, lockfiles, mtx, guards, ret>>
       ELSE /\ call[t].nb
            \* throw "could not lock file"; the handler closes the descriptor
            /\ ofd' = OfdAfterClose(ofd, o, p)
            /\ flk' = FlkAfterClose(ofd, flk, o, p)
            /\ content' = ContentAfter(dir, ofd', content)
            /\ Finish(t, "throw")
            /\ UNCHANGED <<dir, lockfiles, guards>>

\* release<keep>(descriptor) raises an error: the path of a still linked
\* file cannot be stat-ed, or it names another file, or fsync fails
ReleaseThrows(d, of, o, keep) ==
    /\ NLink(d, of[o].ino) > 0
    /\ \/ /\ ~keep
          /\ \/ ~StatOk(d, FdPath(d, of, o))
             \/ d[FdPath(d, of, o)] # of[o].ino
       \/ ~CanFsync(of[o].path)

ReleaseUnlinksNever(d, of, c, o, keep) == FALSE

ReleaseUnlinksKeepIgnored(d, of, c, o, keep) ==
    /\ NLink(d, of[o].ino) > 0
    /\ Len(c[of[o].ino]) = 0

\* release<keep> unlinks the file: still linked, keep-empty not asked for,
\* and lseek(descriptor, 0, SEEK_END) = 0
ReleaseUnlinks(d, of, c, o, keep) ==
    /\ NLink(d, of[o].ino) > 0
    /\ ~keep
    /\ Len(c[of[o].ino]) = 0

\* the directory after release<keep>(descriptor)
DirAfterRelease(d, of, c, o, keep) ==
    IF ReleaseUnlinks(d, of, c, o, keep)
    THEN [d EXCEPT ![FdPath(d, of, o)] = 0]
    ELSE d

DecrementToZero(n) == 0

\* num_locks after unlock's decrement
Decrement(n) == n - 1

\* unlock<keep>(id) by thread t, all of it under lockfiles_mutex
Unlock(t, id, keep) ==
    LET p == ProcOf(t)
        reg == lockfiles[p]
    IN
    IF ~Contains(reg, id)
    THEN /\ ret' = [ret EXCEPT ![t] = "noentry"]
         /\ UNCHANGED <<kernelVars, lockfiles>>
    ELSE LET e == At(reg, id)
             e1 == [e EXCEPT !.num_locks = Decrement(@)]
             o == e.descriptor
         IN
         IF e1.num_locks > 0
         THEN /\ lockfiles' = [lockfiles EXCEPT ![p] = (@ \ {e}) \cup {e1}]
              /\ ret' = [ret EXCEPT ![t] = "kept"]
              /\ UNCHANGED kernelVars
         ELSE IF ReleaseThrows(dir, ofd, o, keep)
         THEN \* the entry stays, decremented, with its descriptor open
              /\ lockfiles' = [lockfiles EXCEPT ![p] = (@ \ {e}) \cup {e1}]
              /\ ret' = [ret EXCEPT ![t] = "unlock_throw"]
              /\ UNCHANGED kernelVars
         ELSE /\ dir' = DirAfterRelease(dir, ofd, content, o, keep)
              /\ ofd' = OfdAfterClose(ofd, o, p)
              /\ flk' = FlkAfterClose(ofd, flk, o, p)
              /\ content' = ContentAfter(dir', ofd', content)
              /\ lockfiles' = [lockfiles EXCEPT ![p] = Erase(@ \ {e}, id)]
              /\ ret' = [ret EXCEPT ![t] = "released"]

\* ~lock_guard_t of the live guard g of thread t
DestroyGuard(t, g) ==
    /\ pc[t] = "idle"
    /\ BagIn(g, guards[t])
    /\ mtx[ProcOf(t)] = 0
    /\ guards' = [guards EXCEPT ![t] = @ (-) SetToBag({g})]
    /\ Unlock(t, g.id, g.keep)
    /\ UNCHANGED <<mtx, pc, call>>

GuardT == [id : {Key(i, Dev) : i \in Inodes}, keep : BOOLEAN]

\* a thread that holds a guard on a file writes it through its path
\* (std::ofstream(filename) << data)
WriteFile(t, path, data) ==
    /\ pc[t] = "idle"
    /\ dir[path] # 0
    /\ \E g \in BagToSet(guards[t]) : g.id = Key(dir[path], Dev)
    /\ content[dir[path]] # data
    /\ content' = [content EXCEPT ![dir[path]] = data]
    /\ UNCHANGED <<dir, ofd, flk, libVars>>

\* ------------------------------------------------ test program (src/test.cpp)

\* operator<< of an int: its decimal digits
RECURSIVE Digits(_)
Digits(n) == IF n < 10 THEN <<n>> ELSE Append(Digits(n \div 10), n % 10)

\* operator>> of an int: the number the digits denote
RECURSIVE Parse(_)
Parse(s) == IF Len(s) = 0 THEN 0 ELSE Parse(SubSeq(s, 1, Len(s) - 1)) * 10 + s[Len(s)]

\* the file the children share ("test.txt")
TestFile == PathA

\* auto guard = locker::lock_guard(filename)
TestLockGuard(t) ==
    /\ tstage[t] = "start"
    /\ LockGuard(t, TestFile, FALSE, FALSE)
    /\ tstage' = [tstage EXCEPT ![t] = "guard"]
    /\ UNCHANGED <<tdata, mapVars, nameVars, modeVars>>

\* std::ifstream(filename) >> data, once the guard is constructed
TestRead(t) ==
    /\ tstage[t] = "guard"
    /\ pc[t] = "idle"
    /\ ret[t] \in {"locked", "counted", "counted_alias"}
    /\ dir[TestFile] # 0
    /\ tdata' = [tdata EXCEPT ![t] = Parse(content[dir[TestFile]])]
    /\ tstage' = [tstage EXCEPT ![t] = "read"]
    /\ UNCHANGED <<kernelVars, libVars, mapVars, nameVars, modeVars>>

\* ++data; std::ofstream(filename) << data << std::flush
TestWrite(t) ==
    /\ tstage[t] = "read"
    /\ dir[TestFile] # 0
    /\ content' = [content EXCEPT ![dir[TestFile]] = Digits(tdata[t] + 1)]
    /\ tstage' = [tstage EXCEPT ![t] = "wrote"]
    /\ UNCHANGED <<dir, ofd, flk, libVars, tdata, mapVars, nameVars, modeVars>>

\* return EXIT_SUCCESS: the guard is destroyed
TestExit(t) ==
    /\ tstage[t] = "wrote"
    /\ \E g \in BagToSet(guards[t]) : DestroyGuard(t, g)
    /\ tstage' = [tstage EXCEPT ![t] = "done"]
    /\ UNCHANGED <<tdata, mapVars, nameVars, modeVars>>

\* the state the children are forked in: test.txt holds "0", nothing is locked
InitTest ==
    /\ dir = [p \in Paths |-> IF p = TestFile THEN 1 ELSE 0]
    /\ content = [i \in Inodes |-> IF i = 1 THEN Digits(0) ELSE EmptyFile]
    /\ ofd = [o \in Ofds |-> FreeOfd]
    /\ flk = [i \in Inodes |-> NoFd]
    /\ lockfiles = [p \in Procs |-> {}]
    /\ mtx = [p \in Procs |-> 0]
    /\ pc = [t \in Threads |-> "idle"]
    /\ call = [t \in Threads |-> NoCall]
    /\ guards = [t \in Threads |-> EmptyBag]
    /\ ret = [t \in Threads |-> "none"]
    /\ tdata = [t \in Threads |-> -1]
    /\ tstage = [t \in Threads |-> IF t \in Children THEN "start" ELSE "none"]
    /\ views = [t \in Threads |-> EmptyBag]
    /\ descriptors = [p \in Procs |-> {}]
    /\ umask = [p \in Procs |-> 0]
    /\ mode = [i \in Inodes |-> 0]

NextTest ==
    \E t \in Children :
        \/ TestLockGuard(t)
        \/ LockFlock(t) /\ UNCHANGED otherVars
        \/ TestRead(t)
        \/ TestWrite(t)
        \/ TestExit(t)

SpecTest == InitTest /\ [][NextTest]_vars

\* the steps of child t
ChildStep(t) ==
    \/ TestLockGuard(t)
    \/ LockFlock(t) /\ UNCHANGED otherVars
    \/ TestRead(t)
    \/ TestWrite(t)
    \/ TestExit(t)

\* the test program with a fair scheduler: a child that can keep running
\* does run, and a child whose flock can be granted for good is granted it
SpecTestFair == SpecTest /\ \A t \in Children : WF_vars(ChildStep(t))

\* ---------------------------------------------------------------- Spec

Init ==
    /\ dir = [p \in Paths |-> IF p \in {PathA, PathL} THEN 1 ELSE 0]
    /\ content = [i \in Inodes |-> EmptyFile]
    /\ ofd = [o \in Ofds |-> FreeOfd]
    /\ flk = [i \in Inodes |-> NoFd]
    /\ lockfiles = [p \in Procs |-> {}]
    /\ mtx = [p \in Procs |-> 0]
    /\ pc = [t \in Threads |-> "idle"]
    /\ call = [t \in Threads |-> NoCall]
    /\ guards = [t \in Threads |-> EmptyBag]
    /\ ret = [t \in Threads |-> "none"]
    /\ tdata = [t \in Threads |-> -1]
    /\ tstage = [t \in Threads |-> "none"]
    /\ views = [t \in Threads |-> EmptyBag]
    /\ descriptors = [p \in Procs |-> {}]
    /\ umask = [p \in Procs |-> 0]
    /\ mode = [i \in Inodes |-> 0]

Next ==
    \E t \in Clients :
        \/ \E path \in LockPaths, nb \in BOOLEAN :
               LockGuard(t, path, nb, FALSE) /\ UNCHANGED otherVars
        \/ LockOpen(t) /\ UNCHANGED otherVars
        \/ LockFlock(t) /\ UNCHANGED otherVars
        \/ \E g \in GuardT : DestroyGuard(t, g) /\ UNCHANGED otherVars
        \/ \E path \in LockPaths, data \in WriteChoices :
               WriteFile(t, path, data) /\ UNCHANGED otherVars

Spec == Init /\ [][Next]_vars

\* ------------------------------ a lockfile deleted while it is held

\* unlink(path) by anyone: a program that does not use the library, or rm
Unlink(path) ==
    /\ dir[path] # 0
    /\ dir' = [dir EXCEPT ![path] = 0]
    /\ content' = ContentAfter(dir', ofd, content)
    /\ UNCHANGED <<ofd, flk, libVars>>

\* the process whose lockfiles are deleted
DeleteClients == {Min(Clients)}

NextDelete ==
    \/ \E t \in DeleteClients :
           \/ \E path \in LockPaths, keep \in BOOLEAN :
                  LockGuard(t, path, FALSE, keep) /\ UNCHANGED otherVars
           \/ LockOpen(t) /\ UNCHANGED otherVars
           \/ LockFlock(t) /\ UNCHANGED otherVars
           \/ \E g \in GuardT : DestroyGuard(t, g) /\ UNCHANGED otherVars
    \/ \E path \in LockPaths : Unlink(path) /\ UNCHANGED otherVars

SpecDelete == Init /\ [][NextDelete]_vars

\* ------------------------- paths that name no regular file (part_004)

\* a regular file, a FIFO and a directory
KindPaths == {PathA, PathFifo, PathDir}

InitKind ==
    /\ dir = [p \in Paths |->
                 IF p = PathA THEN 1 ELSE IF p = PathFifo THEN 2
                 ELSE IF p = PathDir THEN 3 ELSE 0]
    /\ content = [i \in Inodes |-> EmptyFile]
    /\ ofd = [o \in Ofds |-> FreeOfd]
    /\ flk = [i \in Inodes |-> NoFd]
    /\ lockfiles = [p \in Procs |-> {}]
    /\ mtx = [p \in Procs |-> 0]
    /\ pc = [t \in Threads |-> "idle"]
    /\ call = [t \in Threads |-> NoCall]
    /\ guards = [t \in Threads |-> EmptyBag]
    /\ ret = [t \in Threads |-> "none"]
    /\ tdata = [t \in Threads |-> -1]
    /\ tstage = [t \in Threads |-> "none"]
    /\ views = [t \in Threads |-> EmptyBag]
    /\ descriptors = [p \in Procs |-> {}]
    /\ umask = [p \in Procs |-> 0]
    /\ mode = [i \in Inodes |-> 0]

TornDownUntilError(p, reg) ==
    IF \E e \in reg : ReleaseThrows(dir, ofd, e.descriptor, TRUE) THEN {} ELSE reg

\* the entries ~locker releases: release<true> is called for every entry,
\* and an error it raises is caught and dropped
TornDown(p, reg) == {e \in reg : ~ReleaseThrows(dir, ofd, e.descriptor, TRUE)}

\* close by process p of every descriptor of the set D
OfdAfterCloseAll(of, D, p) ==
    [o \in Ofds |-> IF o \in D THEN OfdAfterClose(of, o, p)[o] ELSE of[o]]
FlkAfterCloseAll(of, fl, D, p) ==
    [i \in Inodes |-> IF fl[i] \in D THEN FlkAfterClose(of, fl, fl[i], p)[i] ELSE fl[i]]

\* ~locker, the destructor of the registry, when process p ends (exit, or
\* return from main) outside any call of the library: release<true> of
\* every entry, then lockfiles.clear().  The objects of the process are
\* gone with it.
Teardown(p) ==
    LET D == {e.descriptor : e \in TornDown(p, lockfiles[p])} IN
    /\ tstage[p] = "none"
    /\ pc[p] = "idle"
    /\ mtx[p] = 0
    /\ dir' = [path \in Paths |->
                  IF \E o \in D : /\ ReleaseUnlinks(dir, ofd, content, o, TRUE)
                                  /\ FdPath(dir, ofd, o) = path
                  THEN 0 ELSE dir[path]]
    /\ ofd' = OfdAfterCloseAll(ofd, D, p)
    /\ flk' = FlkAfterCloseAll(ofd, flk, D, p)
    /\ content' = ContentAfter(dir', ofd', content)
    /\ lockfiles' = [lockfiles EXCEPT ![p] = {}]
    /\ guards' = [guards EXCEPT ![p] = EmptyBag]
    /\ ret' = [ret EXCEPT ![p] = "torn_down"]
    /\ tstage' = [tstage EXCEPT ![p] = "torn_down"]
    /\ UNCHANGED <<mtx, pc, call>>

\* the process is gone: the kernel closes the descriptors it still has
ProcessExit(p) ==
    LET D == {o \in Ofds : p \in ofd[o].refs} IN
    /\ tstage[p] = "torn_down"
    /\ ofd' = OfdAfterCloseAll(ofd, D, p)
    /\ flk' = FlkAfterCloseAll(ofd, flk, D, p)
    /\ content' = ContentAfter(dir, ofd', content)
    /\ tstage' = [tstage EXCEPT ![p] = "exited"]
    /\ UNCHANGED <<dir, libVars>>

kindFrame == <<tdata, mapVars, nameVars, modeVars>>

NextKind ==
    \E t \in Clients :
        \/ \E path \in KindPaths, nb \in BOOLEAN, keep \in BOOLEAN :
               tstage[t] = "none" /\ LockGuard(t, path, nb, keep) /\ UNCHANGED otherVars
        \/ tstage[t] = "none" /\ LockOpen(t) /\ UNCHANGED otherVars
        \/ tstage[t] = "none" /\ LockFlock(t) /\ UNCHANGED otherVars
        \/ \E g \in GuardT :
               tstage[t] = "none" /\ DestroyGuard(t, g) /\ UNCHANGED otherVars
        \/ Teardown(ProcOf(t)) /\ UNCHANGED kindFrame
        \/ ProcessExit(ProcOf(t)) /\ UNCHANGED kindFrame

SpecKind == InitKind /\ [][NextKind]_vars

\* ------------------------------- fork of a process that holds a file

\* the process that forks and the child it gets
ForkParent == 1
ForkChild == 2

\* fork() in the parent, outside any call of the library: the child is a
\* copy of the parent.  It has the parent's registry and guard objects, and
\* its descriptors refer to the parent's open file descriptions.
Fork(p, c) ==
    /\ tstage[c] = "unborn"
    /\ pc[p] = "idle"
    /\ guards[p] # EmptyBag
    /\ ofd' = [o \in Ofds |->
                  IF p \in ofd[o].refs
                  THEN [ofd[o] EXCEPT !.refs = @ \cup {c}]
                  ELSE ofd[o]]
    /\ lockfiles' = [lockfiles EXCEPT ![c] = lockfiles[p]]
    /\ guards' = [guards EXCEPT ![c] = guards[p]]
    /\ tstage' = [tstage EXCEPT ![c] = "forked"]
    /\ UNCHANGED <<dir, content, flk, mtx, pc, call, ret>>

\* the parent locks the file before it forks
ParentLockGuard(t, path) ==
    /\ t = ForkParent
    /\ tstage[ForkChild] = "unborn"
    /\ BagCardinality(guards[t]) < MaxGuards - 1
    /\ LockGuard(t, path, FALSE, FALSE)

\* the child locks the file
ChildLockGuard(t, path) ==
    /\ t = ForkChild
    /\ tstage[t] = "forked"
    /\ LockGuard(t, path, FALSE, FALSE)

\* a process that exists destroys one of its guard objects
ForkDestroyGuard(t, g) ==
    /\ tstage[t] # "unborn"
    /\ DestroyGuard(t, g)

\* the steps inside lock of thread t
LockStep(t) == (LockOpen(t) \/ LockFlock(t)) /\ UNCHANGED otherVars

\* the names of the file the two processes lock
ForkPaths == {PathA, PathL}

\* one file under two names, empty or not, one process and no child yet
InitFork ==
    /\ dir = [p \in Paths |-> IF p \in ForkPaths THEN 1 ELSE 0]
    /\ \E data \in WriteChoices :
           content = [i \in Inodes |-> IF i = 1 THEN data ELSE EmptyFile]
    /\ ofd = [o \in Ofds |-> FreeOfd]
    /\ flk = [i \in Inodes |-> NoFd]
    /\ lockfiles = [p \in Procs |-> {}]
    /\ mtx = [p \in Procs |-> 0]
    /\ pc = [t \in Threads |-> "idle"]
    /\ call = [t \in Threads |-> NoCall]
    /\ guards = [t \in Threads |-> EmptyBag]
    /\ ret = [t \in Threads |-> "none"]
    /\ tdata = [t \in Threads |-> -1]
    /\ tstage = [t \in Threads |-> IF t = ForkParent THEN "parent" ELSE "unborn"]
    /\ views = [t \in Threads |-> EmptyBag]
    /\ descriptors = [p \in Procs |-> {}]
    /\ umask = [p \in Procs |-> 0]
    /\ mode = [i \in Inodes |-> 0]

forkFrame == <<tdata, mapVars, nameVars, modeVars>>

NextFork ==
    \/ Fork(ForkParent, ForkChild) /\ UNCHANGED forkFrame
    \/ \E t \in {ForkParent, ForkChild} :
           \/ \E path \in ForkPaths :
                  ParentLockGuard(t, path) /\ UNCHANGED otherVars
           \/ \E path \in ForkPaths :
                  ChildLockGuard(t, path) /\ UNCHANGED otherVars
           \/ LockStep(t)
           \/ \E g \in BagToSet(guards[t]) :
                  ForkDestroyGuard(t, g) /\ UNCHANGED otherVars

\* a lock call that can go on does go on, and a flock that can be granted
\* again and again is granted
SpecFork ==
    /\ InitFork
    /\ [][NextFork]_vars
    /\ \A t \in {ForkParent, ForkChild} : SF_vars(LockStep(t))

\* ------------------------------------ I/O helpers (src/unnamed/part_004)

\* the files the clients of SpecIO lock, read and write
IOPaths == {PathA, PathB, PathC}

\* num_locks of the entry of the file path names, 0 when there is none
CountOf(p, path) ==
    IF dir[path] # 0 /\ Contains(lockfiles[p], Key(dir[path], Dev))
    THEN At(lockfiles[p], Key(dir[path], Dev)).num_locks
    ELSE 0

\* the position of a thread that has called no helper yet: step is where
\* the thread is in the helper (lock, done or failed inside it, returned or
\* raised after it), before the count of the file when it was called
NoHelper ==
    [op |-> "none", path |-> Deleted, data |-> EmptyFile, step |-> "none",
     before |-> 0]

\* thread t is inside a helper: between its call and its return or throw
InHelper(t) == tstage[t].step \in {"lock", "done", "failed"}

\* read(filename) or write(filename, data) begins: auto const guard =
\* lock_guard(filename)
HelperCall(t, path, op, data) ==
    /\ pc[t] = "idle"
    /\ ~InHelper(t)
    /\ mtx[ProcOf(t)] = 0
    /\ LockPass(t, path, FALSE, FALSE)
    /\ tstage' = [tstage EXCEPT ![t] =
           [op |-> op, path |-> path, data |-> data, step |-> "lock",
            before |-> CountOf(ProcOf(t), path)]]

\* the guard of the helper thread t is in: the one lock_guard(filename)
\* returned last
HelperGuard(t) == [id |-> Key(dir[tstage[t].path], Dev), keep |-> FALSE]

\* the helper goes on after lock_guard(filename): when the constructor
\* threw, the helper is left with that error; otherwise the stream is
\* opened (which takes a descriptor), the data is transferred and the
\* stream is closed
HelperTransfer(t) ==
    LET h == tstage[t]
        p == ProcOf(t)
    IN
    /\ InHelper(t)
    /\ h.step = "lock"
    /\ pc[t] = "idle"
    /\ IF ret[t] = "throw"
       THEN /\ tstage' = [tstage EXCEPT ![t] =
                   [NoHelper EXCEPT !.path = h.path, !.before = h.before,
                                    !.step = "raised"]]
            /\ UNCHANGED content
       ELSE IF FreeFds(ofd, p) = {}
       THEN \* !stream.good(): throw "could not open file"
            /\ tstage' = [tstage EXCEPT ![t].step = "failed"]
            /\ UNCHANGED content
       ELSE /\ tstage' = [tstage EXCEPT ![t].step = "done"]
            /\ content' = IF h.op = "write"
                          THEN [content EXCEPT ![dir[h.path]] = h.data]
                          ELSE content
    /\ UNCHANGED <<dir, ofd, flk, libVars>>

UnwindDestroysOnReturnOnly(step) == step = "done"

\* the guard is a local object: its destructor runs when the helper is
\* left, by return or by throw
UnwindDestroys(step) == TRUE

\* the helper is left: ~lock_guard_t of its guard, then the return or the
\* error reaches the caller
HelperExit(t) ==
    LET h == tstage[t] IN
    /\ InHelper(t)
    /\ h.step \in {"done", "failed"}
    /\ IF UnwindDestroys(h.step)
       THEN DestroyGuard(t, HelperGuard(t))
       ELSE /\ pc[t] = "idle"
            /\ UNCHANGED <<kernelVars, libVars>>
    /\ tstage' = [tstage EXCEPT ![t] =
           [NoHelper EXCEPT !.path = h.path, !.before = h.before,
                            !.step = IF h.step = "done" THEN "returned"
                                     ELSE "raised"]]

\* the caller constructs a guard of its own
CallerLockGuard(t, path) ==
    /\ ~InHelper(t)
    /\ LockGuard(t, path, FALSE, FALSE)
    /\ tstage' = [tstage EXCEPT ![t] = NoHelper]

\* the caller destroys a guard of its own
CallerDestroyGuard(t, g) ==
    /\ ~InHelper(t)
    /\ DestroyGuard(t, g)
    /\ tstage' = [tstage EXCEPT ![t] = NoHelper]

\* PathA is a file of one byte, the other files do not exist yet
InitIO ==
    /\ dir = [p \in Paths |-> IF p = PathA THEN 1 ELSE 0]
    /\ content = [i \in Inodes |-> IF i = 1 THEN <<1>> ELSE EmptyFile]
    /\ ofd = [o \in Ofds |-> FreeOfd]
    /\ flk = [i \in Inodes |-> NoFd]
    /\ lockfiles = [p \in Procs |-> {}]
    /\ mtx = [p \in Procs |-> 0]
    /\ pc = [t \in Threads |-> "idle"]
    /\ call = [t \in Threads |-> NoCall]
    /\ guards = [t \in Threads |-> EmptyBag]
    /\ ret = [t \in Threads |-> "none"]
    /\ tdata = [t \in Threads |-> -1]
    /\ tstage = [t \in Threads |-> NoHelper]
    /\ views = [t \in Threads |-> EmptyBag]
    /\ descriptors = [p \in Procs |-> {}]
    /\ umask = [p \in Procs |-> 0]
    /\ mode = [i \in Inodes |-> 0]

ioFrame == <<tdata, mapVars, nameVars, modeVars>>

\* the process that calls the helpers; the others contend for PathA with
\* guards
HelperCallers == {Min(Clients)}
GuardPaths(t) == IF t \in HelperCallers THEN {PathA, PathB} ELSE {PathA}

NextIO ==
    \E t \in Clients :
        \/ \E path \in GuardPaths(t) : CallerLockGuard(t, path) /\ UNCHANGED ioFrame
        \/ LockOpen(t) /\ UNCHANGED otherVars
        \/ LockFlock(t) /\ UNCHANGED otherVars
        \/ \E g \in BagToSet(guards[t]) :
               CallerDestroyGuard(t, g) /\ UNCHANGED ioFrame
        \/ \E path \in IOPaths :
               /\ t \in HelperCallers
               /\ \/ HelperCall(t, path, "read", EmptyFile) /\ UNCHANGED ioFrame
                  \/ \E data \in WriteChoices :
                         HelperCall(t, path, "write", data) /\ UNCHANGED ioFrame
        \/ HelperTransfer(t) /\ UNCHANGED ioFrame
        \/ HelperExit(t) /\ UNCHANGED ioFrame

SpecIO == InitIO /\ [][NextIO]_vars

\* ------------------- locker with memory-mapped view (src/locker.hpp 725-1177)

\* sizeof(data_t) of xmap's default data_t, unsigned char
SizeofData == 1

\* key_t operator< of this revision
MapKeyLess(x, y) == x.inode < y.inode /\ x.device < y.device

\* std::map finds a key by equivalence under operator<
MapKeyEquiv(x, y) == ~MapKeyLess(x, y) /\ ~MapKeyLess(y, x)

MapContains(reg, id) == \E e \in reg : MapKeyEquiv(e.key, id)

MapAt(reg, id) == CHOOSE e \in reg : MapKeyEquiv(e.key, id)

MapErase(reg, id) == {e \in reg : ~MapKeyEquiv(e.key, id)}

\* std::map::emplace inserts nothing when an equivalent key is present
MapEmplace(reg, e) == IF MapContains(reg, e.key) THEN reg ELSE reg \cup {e}

\* what locking lockfiles_mutex does in a thread that already owns it.  The
\* behaviour is undefined: the thread blocks for ever, or the lock raises
\* std::system_error, or (a build whose mutex does nothing, as without
\* thread support) the lock is taken once more.
RelockOutcomes == {"deadlock", "system_error", "proceed"}

\* lock(filename) returns (id, lockfile) to its caller
MapLockReturn(t, id, outcome) ==
    IF call[t].op = "lock_guard"
    THEN \* lock_guard_t's constructor keeps the key
         /\ guards' = [guards EXCEPT ![t] =
                @ (+) SetToBag({[id |-> id, keep |-> FALSE]})]
         /\ Finish(t, outcome)
    ELSE \* memory_map_t's constructor, which owns lockfiles_mutex, or a
         \* helper's guard goes on with the key
         /\ pc' = [pc EXCEPT ![t] = call[t].op]
         /\ call' = [call EXCEPT ![t].id = id, ![t].desc = NoFd]
         /\ mtx' = [mtx EXCEPT ![ProcOf(t)] = IF call[t].op = "mmap" THEN t ELSE 0]
         /\ UNCHANGED <<guards, ret>>

\* one pass of lock(filename)'s loop up to the flock
MapLockPass(t) ==
    LET p == ProcOf(t)
        path == call[t].path
    IN
    IF ~CanOpen(dir, ofd, path, p)
    THEN \* descriptor < 0: throw "could not open file"
         /\ Finish(t, "throw")
         /\ UNCHANGED <<kernelVars, lockfiles, guards>>
    ELSE LET d1 == DirAfterOpen(dir, ofd, path)
             o == OpenedFd(ofd, p)
             of1 == OfdAfterOpen(dir, ofd, path, p)
             id == Key(of1[o].ino, Dev)
         IN
         /\ dir' = d1
         /\ IF MapContains(lockfiles[p], id) /\ MapAt(lockfiles[p], id).pid = Pid(p)
            THEN LET e == MapAt(lockfiles[p], id) IN
                 /\ ofd' = OfdAfterClose(of1, o, p)
                 /\ flk' = FlkAfterClose(of1, flk, o, p)
                 /\ content' = ContentAfter(d1, ofd', content)
                 /\ lockfiles' = [lockfiles EXCEPT ![p] =
                        (@ \ {e}) \cup {[e EXCEPT !.num_locks = Increment(@)]}]
                 /\ MapLockReturn(t, id, "counted")
            ELSE /\ ofd' = of1
                 /\ lockfiles' = [lockfiles EXCEPT ![p] =
                        IF MapContains(@, id) THEN MapErase(@, id) ELSE @]
                 /\ pc' = [pc EXCEPT ![t] = "flock"]
                 /\ call' = [call EXCEPT ![t].desc = o]
                 /\ mtx' = [mtx EXCEPT ![p] = t]
                 /\ UNCHANGED <<content, flk, guards, ret>>

\* a member function of thread t calls lock(path)
MapLockCall(t, path, op, w) ==
    /\ call' = [call EXCEPT ![t] =
           [NoCall EXCEPT !.path = path, !.op = op, !.view.width = w]]
    /\ pc' = [pc EXCEPT ![t] = "open"]
    /\ mtx' = [mtx EXCEPT ![ProcOf(t)] = t]
    /\ UNCHANGED <<kernelVars, lockfiles, guards, ret, views>>

\* lock_guard(filename): lock_guard_t's constructor calls lock(filename)
MapLockGuard(t, path) ==
    /\ pc[t] = "idle"
    /\ BagCardinality(guards[t]) + BagCardinality(views[t]) < MaxGuards
    /\ mtx[ProcOf(t)] = 0
    /\ MapLockCall(t, path, "lock_guard", 0)

\* a pass of lock's loop: the first, or one more after the re-stat failed
MapLockOpen(t) ==
    /\ pc[t] = "open"
    /\ MapLockPass(t)
    /\ UNCHANGED views

\* flock(descriptor, LOCK_EX), waiting while another open file description
\* holds the lock, then the re-stat of the path
MapLockFlock(t) ==
    LET p == ProcOf(t)
        o == call[t].desc
        i == ofd[o].ino
        id == Key(i, Dev)
    IN
    /\ pc[t] = "flock"
    /\ FlockGranted(flk, o, i)
    /\ IF StillLinked(dir, call[t].path, i)
       THEN /\ flk' = [flk EXCEPT ![i] = o]
            /\ lockfiles' = [lockfiles EXCEPT ![p] =
                   MapEmplace(@, Value(id, o, 1, Pid(p)))]
            /\ MapLockReturn(t, id, "locked")
            /\ UNCHANGED <<dir, content, ofd>>
       ELSE /\ ofd' = OfdAfterClose(ofd, o, p)
            /\ flk' = FlkAfterClose(ofd, flk, o, p)
            /\ content' = ContentAfter(dir, ofd', content)
            /\ pc' = [pc EXCEPT ![t] = "open"]
            /\ call' = [call EXCEPT ![t].desc = NoFd]
            /\ UNCHANGED <<dir, lockfiles, mtx, guards, ret>>
    /\ UNCHANGED views

\* unlock(id): the count goes down; at zero fsync, close, erase
MapUnlock(t, id) ==
    LET p == ProcOf(t)
        reg == lockfiles[p]
    IN
    IF ~MapContains(reg, id)
    THEN UNCHANGED <<kernelVars, lockfiles>>
    ELSE LET e == MapAt(reg, id)
             e1 == [e EXCEPT !.num_locks = Decrement(@)]
         IN
         IF e1.num_locks > 0
         THEN /\ lockfiles' = [lockfiles EXCEPT ![p] = (@ \ {e}) \cup {e1}]
              /\ UNCHANGED kernelVars
         ELSE /\ ofd' = OfdAfterClose(ofd, e.descriptor, p)
              /\ flk' = FlkAfterClose(ofd, flk, e.descriptor, p)
              /\ content' = ContentAfter(dir, ofd', content)
              /\ lockfiles' = [lockfiles EXCEPT ![p] = MapErase(@, id)]
              /\ UNCHANGED dir

\* ~lock_guard_t of the live guard g of thread t
MapDestroyGuard(t, g) ==
    /\ pc[t] = "idle"
    /\ BagIn(g, guards[t])
    /\ mtx[ProcOf(t)] = 0
    /\ guards' = [guards EXCEPT ![t] = @ (-) SetToBag({g})]
    /\ MapUnlock(t, g.id)
    /\ ret' = [ret EXCEPT ![t] = "unlocked"]
    /\ UNCHANGED <<mtx, pc, call, views>>

\* the helpers of this revision that lock, transfer and unlock
HelperOps == {"xread", "xwrite"}

\* xread(filename) or xwrite(filename, data) begins: auto const guard =
\* lock_guard(filename)
MapHelperCall(t, path, op) ==
    /\ pc[t] = "idle"
    /\ mtx[ProcOf(t)] = 0
    /\ MapLockCall(t, path, op, 0)

\* the helper after its guard is constructed: the stream is opened (which
\* takes a descriptor; without one the helper throws), the data is
\* transferred (xwrite writes what the file holds already, as the test
\* program does), and on the way out ~lock_guard_t unlocks
MapHelperBody(t) ==
    /\ pc[t] \in HelperOps
    /\ MapUnlock(t, call[t].id)
    /\ Finish(t, IF FreeFds(ofd, ProcOf(t)) = {} THEN "io_error" ELSE pc[t])
    /\ UNCHANGED <<guards, views>>

\* xmap(filename): memory_map_t's constructor checks that the file is there,
\* takes lockfiles_mutex and, owning it, calls lock(filename), which locks
\* the same mutex
XmapAs(t, path, w) ==
    /\ pc[t] = "idle"
    /\ BagCardinality(guards[t]) + BagCardinality(views[t]) < MaxGuards
    /\ mtx[ProcOf(t)] = 0
    /\ IF ~StatOk(dir, path)
       THEN \* throw "is not a regular file"
            /\ ret' = [ret EXCEPT ![t] = "not_regular"]
            /\ UNCHANGED <<kernelVars, lockfiles, mtx, pc, call, guards, views>>
       ELSE \E outcome \in RelockOutcomes :
                CASE outcome = "deadlock" ->
                         /\ pc' = [pc EXCEPT ![t] = "deadlock"]
                         /\ call' = [call EXCEPT ![t] =
                                [NoCall EXCEPT !.path = path, !.op = "mmap",
                                               !.view.width = w]]
                         /\ mtx' = [mtx EXCEPT ![ProcOf(t)] = t]
                         /\ UNCHANGED <<kernelVars, lockfiles, guards, ret, views>>
                  [] outcome = "system_error" ->
                         /\ ret' = [ret EXCEPT ![t] = "system_error"]
                         /\ UNCHANGED <<kernelVars, lockfiles, mtx, pc, call,
                                        guards, views>>
                  [] outcome = "proceed" ->
                         MapLockCall(t, path, "mmap", w)

\* xmap(filename) with the default data_t
Xmap(t, path) == XmapAs(t, path, SizeofData)

CatchUnlockNone(t, id) == UNCHANGED <<kernelVars, lockfiles>>

\* the constructor's handler: catch(...) { unlock(id); throw; }
CatchUnlock(t, id) == MapUnlock(t, id)

DataSizeRoundedUp(st_size, w) == (st_size + w - 1) \div w

\* data_size = st_size / sizeof(data_t)
DataSize(st_size, w) == st_size \div w

\* the rest of memory_map_t's constructor: fstat of the registered
\* descriptor, data_size, mmap of data_size bytes; mmap of no bytes fails,
\* and the handler unlocks and rethrows
MemoryMap(t) ==
    LET p == ProcOf(t)
        id == call[t].id
        o == MapAt(lockfiles[p], id).descriptor
        w == call[t].view.width
        data_size == DataSize(Len(content[ofd[o].ino]), w)
    IN
    /\ pc[t] = "mmap"
    /\ IF data_size = 0
       THEN /\ CatchUnlock(t, id)
            /\ Finish(t, "map_failed")
            /\ UNCHANGED <<guards, views>>
       ELSE /\ views' = [views EXCEPT ![t] = @ (+) SetToBag(
                   {[id |-> id, descriptor |-> o, data_size |-> data_size,
                     width |-> w, synced |-> FALSE]})]
            /\ Finish(t, "view")
            /\ UNCHANGED <<kernelVars, lockfiles, guards>>

DestroyOrderUnlockFirst == <<"msync", "unlock", "munmap">>

\* the statements of ~memory_map_t, in the order they are written
DestroyOrder == <<"msync", "munmap", "unlock">>

\* the object after one statement of its destructor
ViewAfter(v, what) == IF what = "msync" THEN [v EXCEPT !.synced = TRUE] ELSE v

\* one statement of ~memory_map_t on the object v of thread t: msync and
\* munmap act on the mapping if it is there, unlock(id) on the registry
DestroyStatement(t, v, what) ==
    CASE what = "msync" ->
             /\ views' = [views EXCEPT ![t] =
                    IF BagIn(v, @)
                    THEN (@ (-) SetToBag({v})) (+) SetToBag({ViewAfter(v, what)})
                    ELSE @]
             /\ UNCHANGED <<kernelVars, lockfiles>>
      [] what = "munmap" ->
             /\ views' = [views EXCEPT ![t] = @ (-) SetToBag({v})]
             /\ UNCHANGED <<kernelVars, lockfiles>>
      [] what = "unlock" ->
             /\ mtx[ProcOf(t)] = 0
             /\ MapUnlock(t, v.id)
             /\ UNCHANGED views

\* ~memory_map_t of the live view v of thread t begins: its first statement
DestroyView(t, v) ==
    /\ pc[t] = "idle"
    /\ BagIn(v, views[t])
    /\ ~v.synced
    /\ DestroyStatement(t, v, DestroyOrder[1])
    /\ pc' = [pc EXCEPT ![t] = "destroy2"]
    /\ call' = [call EXCEPT ![t] =
           [NoCall EXCEPT !.op = "destroy", !.view = ViewAfter(v, DestroyOrder[1])]]
    /\ UNCHANGED <<mtx, guards, ret>>

\* the second and the third statement of ~memory_map_t
DestroyNext(t) ==
    LET k == IF pc[t] = "destroy2" THEN 2 ELSE 3
        v == call[t].view
    IN
    /\ pc[t] \in {"destroy2", "destroy3"}
    /\ DestroyStatement(t, v, DestroyOrder[k])
    /\ IF k = 3
       THEN Finish(t, "unmapped")
       ELSE /\ pc' = [pc EXCEPT ![t] = "destroy3"]
            /\ call' = [call EXCEPT ![t].view = ViewAfter(v, DestroyOrder[k])]
            /\ UNCHANGED <<mtx, ret>>
    /\ UNCHANGED guards

\* the files the clients of SpecMap lock, and the paths they map (PathL
\* names no file there)
MapPaths == {PathA, PathB}
XmapPaths == {PathA, PathB, PathL}

MapGuardT == [id : {Key(i, Dev) : i \in Inodes}, keep : {FALSE}]

MapViewT ==
    [id : {Key(i, Dev) : i \in Inodes}, descriptor : Ofds, data_size : {1},
     width : {SizeofData}, synced : {FALSE}]

\* two files on one device, the first of one byte, the second empty
InitMap ==
    /\ dir = [p \in Paths |-> IF p = PathA THEN 1 ELSE IF p = PathB THEN 2 ELSE 0]
    /\ content = [i \in Inodes |-> IF i = 1 THEN <<1>> ELSE EmptyFile]
    /\ ofd = [o \in Ofds |-> FreeOfd]
    /\ flk = [i \in Inodes |-> NoFd]
    /\ lockfiles = [p \in Procs |-> {}]
    /\ mtx = [p \in Procs |-> 0]
    /\ pc = [t \in Threads |-> "idle"]
    /\ call = [t \in Threads |-> NoCall]
    /\ guards = [t \in Threads |-> EmptyBag]
    /\ ret = [t \in Threads |-> "none"]
    /\ tdata = [t \in Threads |-> -1]
    /\ tstage = [t \in Threads |-> "none"]
    /\ views = [t \in Threads |-> EmptyBag]
    /\ descriptors = [p \in Procs |-> {}]
    /\ umask = [p \in Procs |-> 0]
    /\ mode = [i \in Inodes |-> 0]

NextMap ==
    \E t \in Clients :
        \/ \E path \in MapPaths :
               MapLockGuard(t, path) /\ UNCHANGED <<testVars, nameVars, modeVars>>
        \/ MapLockOpen(t) /\ UNCHANGED <<testVars, nameVars, modeVars>>
        \/ MapLockFlock(t) /\ UNCHANGED <<testVars, nameVars, modeVars>>
        \/ \E g \in MapGuardT :
               MapDestroyGuard(t, g) /\ UNCHANGED <<testVars, nameVars, modeVars>>
        \/ \E path \in XmapPaths : Xmap(t, path) /\ UNCHANGED <<testVars, nameVars, modeVars>>
        \/ MemoryMap(t) /\ UNCHANGED <<testVars, nameVars, modeVars>>
        \/ \E v \in MapViewT : DestroyView(t, v) /\ UNCHANGED <<testVars, nameVars, modeVars>>
        \/ DestroyNext(t) /\ UNCHANGED <<testVars, nameVars, modeVars>>
        \/ \E op \in HelperOps :
               /\ t \in HelperCallers
               /\ MapHelperCall(t, PathA, op)
               /\ UNCHANGED <<testVars, nameVars, modeVars>>
        \/ MapHelperBody(t) /\ UNCHANGED <<testVars, nameVars, modeVars>>

SpecMap == InitMap /\ [][NextMap]_vars

\* ----------------------------------------- element access of a view

\* sizeof(data_t) of the instantiations xmap<unsigned char>, xmap<short>
\* and xmap<int>
Widths == {1, 2, 4}

\* the bytes the kernel maps for mmap(nullptr, length, ...): whole pages
PageCeil(length) == ((length + PageSize - 1) \div PageSize) * PageSize

\* the length passed to mmap, msync and munmap for the view v
MapLength(v) == v.data_size

\* the bytes of the mapping of view v: the constructor passes data_size,
\* the number of elements, as the length
MappedBytes(v) == PageCeil(v.data_size)

\* the value of w bytes read as one little-endian element
RECURSIVE LittleEndian(_)
LittleEndian(bytes) ==
    IF bytes = << >> THEN 0 ELSE Head(bytes) + 256 * LittleEndian(Tail(bytes))

\* data_ptr[index]: the element at byte offset index * sizeof(data_t) of
\* the mapped file
ElementAt(bytes, index, w) ==
    LittleEndian(SubSeq(bytes, index * w + 1, index * w + w))

\* what reading memory behind the end of a mapping does: the access is
\* undefined; the process is killed by SIGSEGV, or the read gives whatever
\* another mapping holds at that address
AccessOutcomes == {"sigsegv", "garbage"}
Garbage == -2

\* the kernel ends process p: its descriptors are closed, its locks dropped
\* and its memory, the registry and the mappings with it, is gone
Killed(t) ==
    LET p == ProcOf(t)
        of1 == [o \in Ofds |->
                   IF p \notin ofd[o].refs THEN ofd[o]
                   ELSE IF ofd[o].refs = {p} THEN FreeOfd
                   ELSE [ofd[o] EXCEPT !.refs = @ \ {p}]]
    IN
    /\ ofd' = of1
    /\ flk' = [i \in Inodes |->
                  IF flk[i] # NoFd /\ of1[flk[i]].ino = 0 THEN NoFd ELSE flk[i]]
    /\ content' = ContentAfter(dir, of1, content)
    /\ lockfiles' = [lockfiles EXCEPT ![p] = {}]
    /\ views' = [views EXCEPT ![t] = EmptyBag]
    /\ guards' = [guards EXCEPT ![t] = EmptyBag]
    /\ mtx' = [mtx EXCEPT ![p] = 0]
    /\ pc' = [pc EXCEPT ![t] = "killed"]
    /\ UNCHANGED dir

\* v.at(index) on the open view v of thread t
ViewAt(t, v, index) ==
    LET bytes == content[ofd[v.descriptor].ino]
        here == [NoCall EXCEPT !.op = "at", !.view = v, !.index = index]
    IN
    /\ pc[t] = "idle"
    /\ BagIn(v, views[t])
    /\ ~v.synced
    /\ call' = [call EXCEPT ![t] = here]
    /\ IF index >= v.data_size
       THEN \* throw "index is out of the range"
            /\ ret' = [ret EXCEPT ![t] = "out_of_range"]
            /\ UNCHANGED <<kernelVars, lockfiles, mtx, pc, guards, views, tdata>>
       ELSE IF (index + 1) * v.width <= MappedBytes(v)
       THEN /\ ret' = [ret EXCEPT ![t] = "element"]
            /\ tdata' = [tdata EXCEPT ![t] = ElementAt(bytes, index, v.width)]
            /\ UNCHANGED <<kernelVars, lockfiles, mtx, pc, guards, views>>
       ELSE \E outcome \in AccessOutcomes :
                IF outcome = "sigsegv"
                THEN /\ Killed(t)
                     /\ ret' = [ret EXCEPT ![t] = "sigsegv"]
                     /\ UNCHANGED tdata
                ELSE /\ ret' = [ret EXCEPT ![t] = "element"]
                     /\ tdata' = [tdata EXCEPT ![t] = Garbage]
                     /\ UNCHANGED <<kernelVars, lockfiles, mtx, pc, guards, views>>

\* the file the clients of SpecView map: byte k of it holds k
ViewFile(n) == [k \in 1 .. n |-> k]

InitView ==
    /\ dir = [p \in Paths |-> IF p = PathA THEN 1 ELSE 0]
    /\ \E n \in 0 .. MaxBytes :
           content = [i \in Inodes |-> IF i = 1 THEN ViewFile(n) ELSE EmptyFile]
    /\ ofd = [o \in Ofds |-> FreeOfd]
    /\ flk = [i \in Inodes |-> NoFd]
    /\ lockfiles = [p \in Procs |-> {}]
    /\ mtx = [p \in Procs |-> 0]
    /\ pc = [t \in Threads |-> "idle"]
    /\ call = [t \in Threads |-> NoCall]
    /\ guards = [t \in Threads |-> EmptyBag]
    /\ ret = [t \in Threads |-> "none"]
    /\ tdata = [t \in Threads |-> -1]
    /\ tstage = [t \in Threads |-> "none"]
    /\ views = [t \in Threads |-> EmptyBag]
    /\ descriptors = [p \in Procs |-> {}]
    /\ umask = [p \in Procs |-> 0]
    /\ mode = [i \in Inodes |-> 0]

viewFrame == <<tstage, nameVars, modeVars>>

\* one process maps the file and reads its elements
ViewClients == {Min(Clients)}

NextView ==
    \E t \in ViewClients :
        \/ \E w \in Widths : XmapAs(t, PathA, w) /\ UNCHANGED <<testVars, nameVars, modeVars>>
        \/ MapLockOpen(t) /\ UNCHANGED <<testVars, nameVars, modeVars>>
        \/ MapLockFlock(t) /\ UNCHANGED <<testVars, nameVars, modeVars>>
        \/ MemoryMap(t) /\ UNCHANGED <<testVars, nameVars, modeVars>>
        \/ \E v \in BagToSet(views[t]) : \E index \in 0 .. MaxBytes :
               ViewAt(t, v, index) /\ UNCHANGED viewFrame
        \/ \E v \in BagToSet(views[t]) :
               DestroyView(t, v) /\ UNCHANGED <<testVars, nameVars, modeVars>>
        \/ DestroyNext(t) /\ UNCHANGED <<testVars, nameVars, modeVars>>

SpecView == InitView /\ [][NextView]_vars

\* --------------------------- typed binary read (src/unnamed/part_004)

\* data.size() of read<T>: std::vector<T>(num_bytes / sizeof(T))
ReadElements(n, w) == n \div w

\* the bytes input.read(data.data(), num_bytes) stores through the pointer
\* to the buffer: all the bytes of the file, when the buffer has an element
ReadCopied(n, w) == IF ReadElements(n, w) > 0 THEN n ELSE 0

\* what storing behind the end of the vector's buffer does: the write is
\* undefined; the heap is corrupted and the call returns, or the process
\* is killed
OverflowOutcomes == {"corrupted", "killed"}

\* the locals of read<T>(filename): the element width, the size of the
\* file, the elements and bytes of the buffer, the bytes stored
NoRead ==
    [path |-> Deleted, width |-> 0, step |-> "none", bytes |-> 0,
     elements |-> 0, buffer |-> 0, copied |-> 0]

\* read<T>(filename) begins: auto const guard = lock_guard(filename)
TypedReadCall(t, path, w) ==
    /\ pc[t] = "idle"
    /\ tstage[t].step \in {"none", "returned", "raised"}
    /\ mtx[ProcOf(t)] = 0
    /\ LockPass(t, path, FALSE, FALSE)
    /\ tstage' = [tstage EXCEPT ![t] =
           [NoRead EXCEPT !.path = path, !.width = w, !.step = "lock"]]

\* read<T> after the guard: the stream is opened at the end, tellg gives
\* the size, the vector is made and the file is read into it
TypedReadBody(t) ==
    LET h == tstage[t]
        n == Len(content[dir[h.path]])
        done == [h EXCEPT !.bytes = n,
                          !.elements = ReadElements(n, h.width),
                          !.buffer = ReadElements(n, h.width) * h.width,
                          !.copied = ReadCopied(n, h.width)]
    IN
    /\ h.step = "lock"
    /\ pc[t] = "idle"
    /\ IF ret[t] = "throw" \/ FreeFds(ofd, ProcOf(t)) = {}
       THEN \* the guard or the stream failed
            /\ tstage' = [tstage EXCEPT ![t].step =
                   IF ret[t] = "throw" THEN "raised" ELSE "failed"]
            /\ UNCHANGED <<kernelVars, libVars, views>>
       ELSE IF done.copied <= done.buffer
       THEN /\ tstage' = [tstage EXCEPT ![t] = [done EXCEPT !.step = "done"]]
            /\ UNCHANGED <<kernelVars, libVars, views>>
       ELSE \E outcome \in OverflowOutcomes :
                IF outcome = "killed"
                THEN /\ Killed(t)
                     /\ tstage' = [tstage EXCEPT ![t] = [done EXCEPT !.step = "killed"]]
                     /\ UNCHANGED <<call, ret>>
                ELSE /\ tstage' = [tstage EXCEPT ![t] = [done EXCEPT !.step = "done"]]
                     /\ UNCHANGED <<kernelVars, libVars, views>>

\* read<T> is left: ~lock_guard_t of its guard
TypedReadExit(t) ==
    LET h == tstage[t] IN
    /\ h.step \in {"done", "failed"}
    /\ DestroyGuard(t, [id |-> Key(dir[h.path], Dev), keep |-> FALSE])
    /\ tstage' = [tstage EXCEPT ![t].step =
           IF h.step = "done" THEN "returned" ELSE "raised"]

\* PathA is a file of 0 .. MaxBytes bytes
InitRead ==
    /\ dir = [p \in Paths |-> IF p = PathA THEN 1 ELSE 0]
    /\ \E n \in 0 .. MaxBytes :
           content = [i \in Inodes |-> IF i = 1 THEN ViewFile(n) ELSE EmptyFile]
    /\ ofd = [o \in Ofds |-> FreeOfd]
    /\ flk = [i \in Inodes |-> NoFd]
    /\ lockfiles = [p \in Procs |-> {}]
    /\ mtx = [p \in Procs |-> 0]
    /\ pc = [t \in Threads |-> "idle"]
    /\ call = [t \in Threads |-> NoCall]
    /\ guards = [t \in Threads |-> EmptyBag]
    /\ ret = [t \in Threads |-> "none"]
    /\ tdata = [t \in Threads |-> -1]
    /\ tstage = [t \in Threads |-> NoRead]
    /\ views = [t \in Threads |-> EmptyBag]
    /\ descriptors = [p \in Procs |-> {}]
    /\ umask = [p \in Procs |-> 0]
    /\ mode = [i \in Inodes |-> 0]

\* one process reads the file, the others contend for it with guards
NextRead ==
    \E t \in Clients :
        \/ \E w \in Widths :
               /\ t \in ViewClients
               /\ TypedReadCall(t, PathA, w)
               /\ UNCHANGED <<tdata, mapVars, nameVars, modeVars>>
        \/ t \notin ViewClients /\ LockGuard(t, PathA, FALSE, FALSE) /\ UNCHANGED otherVars
        \/ \E g \in BagToSet(guards[t]) :
               t \notin ViewClients /\ DestroyGuard(t, g) /\ UNCHANGED otherVars
        \/ LockOpen(t) /\ UNCHANGED otherVars
        \/ LockFlock(t) /\ UNCHANGED otherVars
        \/ TypedReadBody(t) /\ UNCHANGED <<tdata, nameVars, modeVars>>
        \/ TypedReadExit(t) /\ UNCHANGED <<tdata, mapVars, nameVars, modeVars>>

SpecRead == InitRead /\ [][NextRead]_vars

\* ------------------------ filename-keyed locker (src/locker.hpp 342-637)

\* names that are no lockable file: the empty string, a name that ends in a
\* slash, a directory, a file the process may not read and write
NameEmpty == << >>
NameSlash == <<"d", "/">>
NameDir == <<"d">>
NameRO == <<"r">>
\* the directory entries that are there whatever the processes do
FixedEntries == {NameDir, NameRO}

\* three regular files the process may read and write
LockNames == {PathA, PathB, PathC}
Names == LockNames \cup {NameEmpty, NameSlash, NameDir, NameRO}

\* filename.empty() or filename.back() == '/'
IsInvalid(name) == Len(name) = 0 \/ name[Len(name)] = "/"

\* std::filesystem::exists(filename)
Exists(d, name) == name \in FixedEntries \/ (name \in Paths /\ d[name] # 0)

\* std::filesystem::is_regular_file(std::filesystem::status(filename))
IsRegularFile(name) == name # NameDir

\* has_permission(filename)
HasPermission(name) == name # NameRO

\* has_permission_to_file of try_lock; the directory of every name of the
\* model is there and writable
HasPermissionToFile(d, name) ==
    ~Exists(d, name) \/ (IsRegularFile(name) /\ HasPermission(name))

\* the names in the registry of process p
Held(p) == {e.name : e \in descriptors[p]}

\* a try_lock that returns true when the open or the flock fails
TryLockResultTrueOnRefusal(p, name) ==
    IF IsInvalid(name) THEN "throw"
    ELSE IF name \in Held(p) THEN "held"
    ELSE IF ~HasPermissionToFile(dir, name) THEN "throw"
    ELSE IF ~CanOpen(dir, ofd, name, p) THEN "held"
    ELSE IF ~FlockGranted(flk, OpenedFd(ofd, p),
                          OfdAfterOpen(dir, ofd, name, p)[OpenedFd(ofd, p)].ino)
         THEN "held"
    ELSE "true"

\* try_lock(filename) of process p: "throw", "held" (true, the name is in
\* the registry already), "true" (true, newly locked) or "false"
TryLockResult(p, name) ==
    IF IsInvalid(name) THEN "throw"
    ELSE IF name \in Held(p) THEN "held"
    ELSE IF ~HasPermissionToFile(dir, name) THEN "throw"
    ELSE IF ~CanOpen(dir, ofd, name, p) THEN "false"
    ELSE IF ~FlockGranted(flk, OpenedFd(ofd, p),
                          OfdAfterOpen(dir, ofd, name, p)[OpenedFd(ofd, p)].ino)
         THEN "false"
    ELSE "true"

\* the error try_lock and unlock raise for a name: "filename must not be
\* empty" for a name that is none, "do not have permission to lock file"
\* otherwise
NameError(name) == IF IsInvalid(name) THEN "throw_empty" ELSE "throw"
NameErrors == {"throw", "throw_empty"}

\* a try_lock that enters the name in the registry before it looks at it
TryLockEffectRegistersFirst(p, name, r) ==
    IF r = "true"
    THEN LET o == OpenedFd(ofd, p)
             of1 == OfdAfterOpen(dir, ofd, name, p)
         IN
         /\ dir' = DirAfterOpen(dir, ofd, name)
         /\ ofd' = of1
         /\ flk' = [flk EXCEPT ![of1[o].ino] = o]
         /\ descriptors' = [descriptors EXCEPT ![p] =
                @ \cup {[name |-> name, descriptor |-> o]}]
         /\ UNCHANGED content
    ELSE IF r = "throw" /\ IsInvalid(name)
    THEN /\ descriptors' = [descriptors EXCEPT ![p] =
                @ \cup {[name |-> name, descriptor |-> NoFd]}]
         /\ UNCHANGED kernelVars
    ELSE UNCHANGED <<kernelVars, descriptors>>

\* a try_lock that returns false with the descriptor it opened left open
TryLockEffectLeaksDescriptor(p, name, r) ==
    IF r = "true"
    THEN LET o == OpenedFd(ofd, p)
             of1 == OfdAfterOpen(dir, ofd, name, p)
         IN
         /\ dir' = DirAfterOpen(dir, ofd, name)
         /\ ofd' = of1
         /\ flk' = [flk EXCEPT ![of1[o].ino] = o]
         /\ descriptors' = [descriptors EXCEPT ![p] =
                @ \cup {[name |-> name, descriptor |-> o]}]
         /\ UNCHANGED content
    ELSE IF r = "false" /\ CanOpen(dir, ofd, name, p)
    THEN /\ dir' = DirAfterOpen(dir, ofd, name)
         /\ ofd' = OfdAfterOpen(dir, ofd, name, p)
         /\ UNCHANGED <<content, flk, descriptors>>
    ELSE UNCHANGED <<kernelVars, descriptors>>

\* what try_lock(filename) does to the kernel and the registry
TryLockEffect(p, name, r) ==
    IF r = "true"
    THEN LET o == OpenedFd(ofd, p)
             of1 == OfdAfterOpen(dir, ofd, name, p)
         IN
         /\ dir' = DirAfterOpen(dir, ofd, name)
         /\ ofd' = of1
         /\ flk' = [flk EXCEPT ![of1[o].ino] = o]
         /\ descriptors' = [descriptors EXCEPT ![p] =
                @ \cup {[name |-> name, descriptor |-> o]}]
         /\ UNCHANGED content
    ELSE UNCHANGED <<kernelVars, descriptors>>

\* unlock(filename) of a valid name: close and erase when it is registered
UnlockEffect(p, name) ==
    IF name \in Held(p)
    THEN LET e == CHOOSE x \in descriptors[p] : x.name = name IN
         /\ ofd' = OfdAfterClose(ofd, e.descriptor, p)
         /\ flk' = FlkAfterClose(ofd, flk, e.descriptor, p)
         /\ content' = ContentAfter(dir, ofd', content)
         /\ descriptors' = [descriptors EXCEPT ![p] = @ \ {e}]
         /\ UNCHANGED dir
    ELSE UNCHANGED <<kernelVars, descriptors>>

\* the locals of a multi-file call: the member called, its arguments, the
\* position in them, the names held when it began, the names it locked, the
\* names it called unlock for, and the position at which try_lock returned
\* false
NoNameCall ==
    [op |-> "none", names |-> << >>, i |-> 0, before |-> {},
     acquired |-> << >>, released |-> << >>, failed |-> 0]

\* a call returns or raises an error
NameFinish(t, outcome) ==
    /\ pc' = [pc EXCEPT ![t] = "idle"]
    /\ call' = [call EXCEPT ![t] = NoNameCall]
    /\ ret' = [ret EXCEPT ![t] = outcome]

\* try_lock(filename), the call with one file
NameTryLock(t, name) ==
    LET r == TryLockResult(ProcOf(t), name) IN
    /\ pc[t] = "idle"
    /\ TryLockEffect(ProcOf(t), name, r)
    /\ UNCHANGED <<pc, call, guards, ret>>

\* unlock(filename), the call with one file
NameUnlock(t, name) ==
    /\ pc[t] = "idle"
    /\ IF IsInvalid(name)
       THEN \* throw "filename must not be empty"
            UNCHANGED <<kernelVars, descriptors>>
       ELSE UnlockEffect(ProcOf(t), name)
    /\ UNCHANGED <<pc, call, guards, ret>>

\* try_lock(f1, ..., fn), lock(f1, ..., fn), lock_guard(f1, ..., fn) or
\* unlock(f1, ..., fn) is called
NameCallBody(t, op, names) ==
    /\ pc[t] = "idle"
    /\ call' = [call EXCEPT ![t] =
           [NoNameCall EXCEPT !.op = op, !.names = names, !.i = 1,
                              !.before = Held(ProcOf(t))]]
    /\ pc' = [pc EXCEPT ![t] = IF op = "unlock" THEN "unlock" ELSE "try"]
    /\ ret' = [ret EXCEPT ![t] = "none"]
    /\ UNCHANGED <<kernelVars, descriptors, guards>>

\* a multi-file call of a thread that has at most MaxNameGuards guards and
\* makes its calls outside their scope
NameCall(t, op, names) ==
    /\ BagCardinality(guards[t]) < MaxNameGuards
    /\ NameCallBody(t, op, names)

AfterRefusalNone(i) == 0

\* where the variadic try_lock goes after try_lock(names[i]) returned false:
\* to unlock(names[i - 1]), the file of the enclosing call
AfterRefusal(i) == i - 1

\* the variadic try_lock has returned false to its caller: try_lock's caller
\* gets false, lock's loop calls it again
Refused(t, c) ==
    IF c.op = "try_lock"
    THEN NameFinish(t, IF c.failed > 1 THEN "false_rolled_back" ELSE "false")
    ELSE /\ call' = [call EXCEPT ![t] = [c EXCEPT !.i = 1, !.acquired = << >>]]
         /\ pc' = [pc EXCEPT ![t] = "try"]
         /\ UNCHANGED ret

\* try_lock(names[i]) inside a multi-file acquisition
TryLockStep(t) ==
    LET p == ProcOf(t)
        c == call[t]
        name == c.names[c.i]
        r == TryLockResult(p, name)
    IN
    /\ pc[t] = "try"
    /\ TryLockEffect(p, name, r)
    /\ CASE r = "throw" ->
                \* the error leaves every enclosing call at once
                /\ NameFinish(t, NameError(name))
                /\ UNCHANGED guards
         [] r \in {"true", "held"} ->
                LET c1 == [c EXCEPT !.acquired =
                              IF r = "true" THEN Append(@, name) ELSE @]
                IN
                IF c.i < Len(c.names)
                THEN /\ call' = [call EXCEPT ![t] = [c1 EXCEPT !.i = c.i + 1]]
                     /\ UNCHANGED <<pc, ret, guards>>
                ELSE /\ NameFinish(t, IF c.op = "try_lock" THEN "true" ELSE "void")
                     /\ guards' = [guards EXCEPT ![t] =
                            IF c.op = "lock_guard"
                            THEN @ (+) SetToBag({[filenames |-> c.names]})
                            ELSE @]
         [] r = "false" ->
                IF c.op = "lock_guard"
                THEN \* lock(vector): lock(filename) calls try_lock again
                     UNCHANGED <<call, pc, ret, guards>>
                ELSE /\ IF AfterRefusal(c.i) = 0
                        THEN Refused(t, [c EXCEPT !.failed = c.i])
                        ELSE /\ call' = [call EXCEPT ![t] =
                                    [c EXCEPT !.failed = c.i, !.i = AfterRefusal(c.i)]]
                             /\ pc' = [pc EXCEPT ![t] = "rollback"]
                             /\ UNCHANGED ret
                     /\ UNCHANGED guards

\* unlock(names[i]) of the variadic try_lock that got false from the rest
RollbackStep(t) ==
    LET p == ProcOf(t)
        c == call[t]
    IN
    /\ pc[t] = "rollback"
    /\ UnlockEffect(p, c.names[c.i])
    /\ IF c.i = 1
       THEN Refused(t, c)
       ELSE /\ call' = [call EXCEPT ![t].i = c.i - 1]
            /\ UNCHANGED <<pc, ret>>
    /\ UNCHANGED guards

UnlockOrderForward(names) == names

\* the order in which unlock(f1, ..., fn), unlock(vector) and ~lock_guard_t
\* call unlock(filename): last name first
UnlockOrder(names) == [k \in 1 .. Len(names) |-> names[Len(names) + 1 - k]]

\* the i-th unlock(filename) of a multi-file release
UnlockStep(t) ==
    LET p == ProcOf(t)
        c == call[t]
        name == UnlockOrder(c.names)[c.i]
    IN
    /\ pc[t] = "unlock"
    /\ IF IsInvalid(name)
       THEN \* throw "filename must not be empty"
            /\ NameFinish(t, NameError(name))
            /\ UNCHANGED <<kernelVars, descriptors>>
       ELSE /\ UnlockEffect(p, name)
            /\ IF c.i < Len(c.names)
               THEN /\ call' = [call EXCEPT ![t] =
                           [c EXCEPT !.released = Append(@, name), !.i = c.i + 1]]
                    /\ UNCHANGED <<pc, ret>>
               ELSE NameFinish(t, "void")
    /\ UNCHANGED guards

\* ~lock_guard_t of the live guard g of thread t: unlock(filenames)
NameDestroyGuard(t, g) ==
    /\ pc[t] = "idle"
    /\ BagIn(g, guards[t])
    /\ guards' = [guards EXCEPT ![t] = @ (-) SetToBag({g})]
    /\ call' = [call EXCEPT ![t] =
           [NoNameCall EXCEPT !.op = "~lock_guard_t", !.names = g.filenames,
                              !.i = 1, !.before = Held(ProcOf(t))]]
    /\ pc' = [pc EXCEPT ![t] = "unlock"]
    /\ ret' = [ret EXCEPT ![t] = "none"]
    /\ UNCHANGED <<kernelVars, descriptors>>

\* the sequences of m .. n names
SeqsOf(S, m, n) == UNION {[1 .. k -> S] : k \in m .. n}

\* the number of names of a list that are no lockable file
RECURSIVE Unlockable(_)
Unlockable(names) ==
    IF Len(names) = 0 THEN 0
    ELSE (IF names[1] \in LockNames THEN 0 ELSE 1) + Unlockable(Tail(names))

\* the argument lists of the multi-file calls: two to MaxNames names, at
\* most one of them no lockable file
NameLists == {names \in SeqsOf(Names, 2, MaxNames) : Unlockable(names) <= 1}

NameOps == {"try_lock", "lock", "lock_guard", "unlock"}

\* the threads that make the multi-file calls; the others lock and unlock
\* one file, or pass a name that is none
MultiCallers == {1}
OtherNames == {PathB, NameEmpty}

\* the three files are there and nothing is locked
InitName ==
    /\ dir = [p \in Paths |->
                 IF p = PathA THEN 1 ELSE IF p = PathB THEN 2
                 ELSE IF p = PathC THEN 3 ELSE 0]
    /\ content = [i \in Inodes |-> EmptyFile]
    /\ ofd = [o \in Ofds |-> FreeOfd]
    /\ flk = [i \in Inodes |-> NoFd]
    /\ lockfiles = [p \in Procs |-> {}]
    /\ mtx = [p \in Procs |-> 0]
    /\ pc = [t \in Threads |-> "idle"]
    /\ call = [t \in Threads |-> NoNameCall]
    /\ guards = [t \in Threads |-> EmptyBag]
    /\ ret = [t \in Threads |-> "none"]
    /\ tdata = [t \in Threads |-> -1]
    /\ tstage = [t \in Threads |-> "none"]
    /\ views = [t \in Threads |-> EmptyBag]
    /\ descriptors = [p \in Procs |-> {}]
    /\ umask = [p \in Procs |-> 0]
    /\ mode = [i \in Inodes |-> 0]

nameFrame == <<lockfiles, mtx, testVars, mapVars, modeVars>>

NextName ==
    \E t \in Clients :
        \/ \E name \in OtherNames :
               t \notin MultiCallers /\ NameTryLock(t, name) /\ UNCHANGED nameFrame
        \/ \E name \in OtherNames :
               t \notin MultiCallers /\ NameUnlock(t, name) /\ UNCHANGED nameFrame
        \/ \E op \in NameOps, names \in NameLists :
               t \in MultiCallers /\ NameCall(t, op, names) /\ UNCHANGED nameFrame
        \/ TryLockStep(t) /\ UNCHANGED nameFrame
        \/ RollbackStep(t) /\ UNCHANGED nameFrame
        \/ UnlockStep(t) /\ UNCHANGED nameFrame
        \/ \E g \in BagToSet(guards[t]) : NameDestroyGuard(t, g) /\ UNCHANGED nameFrame

SpecName == InitName /\ [][NextName]_vars

\* ---------------- two processes that lock the same files in two orders

\* the processes that lock lists of files, and the lists
ListCallers == {1, 2}
ListAB == <<PathA, PathB>>
ListBA == <<PathB, PathA>>

\* lock(f1, f2), the variadic form, or lock_guard over the list, whose
\* constructor calls lock(filenames), the list form
NextLists ==
    \E t \in ListCallers :
        \/ \E op \in {"lock", "lock_guard"}, names \in {ListAB, ListBA} :
               NameCall(t, op, names) /\ UNCHANGED nameFrame
        \/ \E names \in {ListAB, ListBA} :
               NameCall(t, "unlock", names) /\ UNCHANGED nameFrame
        \/ TryLockStep(t) /\ UNCHANGED nameFrame
        \/ RollbackStep(t) /\ UNCHANGED nameFrame
        \/ UnlockStep(t) /\ UNCHANGED nameFrame
        \/ \E g \in BagToSet(guards[t]) : NameDestroyGuard(t, g) /\ UNCHANGED nameFrame

SpecLists == InitName /\ [][NextLists]_vars

\* ------------- xread and xwrite of the filename-keyed locker, with threads

\* the threads of SpecXio: the last one is a process of its own, the others
\* are threads of one process and share its registry
XioProc(t) == IF t = Max(NumProcs, NumForks) THEN 2 ELSE 1

\* the file the threads read and write
XioFile == PathA

\* is_locked(filename): descriptors.contains(filename), read without
\* descriptors_mutex
IsLocked(p, name) == name \in Held(p)

\* the locals of xread / xwrite
NoXioCall == [op |-> "none", name |-> NameEmpty, should_lock |-> FALSE, error |-> FALSE]

\* xread(filename) or xwrite(filename, data) begins:
\* should_lock = !is_locked(filename)
XioCall(t, op, name) ==
    LET should_lock == ~IsLocked(XioProc(t), name) IN
    /\ pc[t] = "idle"
    /\ call' = [call EXCEPT ![t] =
           [NoXioCall EXCEPT !.op = op, !.name = name, !.should_lock = should_lock]]
    /\ pc' = [pc EXCEPT ![t] = IF should_lock THEN "xlock" ELSE "xtransfer"]
    /\ ret' = [ret EXCEPT ![t] = "none"]
    /\ UNCHANGED <<kernelVars, descriptors>>

\* lock(filename): while(!try_lock(filename)) {}; the loop ends when
\* try_lock returns true, also when it does so because the name is in the
\* registry already, and an error of try_lock leaves xread / xwrite
XioLock(t) ==
    LET p == XioProc(t)
        r == TryLockResult(p, call[t].name)
    IN
    /\ pc[t] = "xlock"
    /\ r # "false"
    /\ TryLockEffect(p, call[t].name, r)
    /\ IF r = "throw"
       THEN /\ pc' = [pc EXCEPT ![t] = "idle"]
            /\ call' = [call EXCEPT ![t] = NoXioCall]
            /\ ret' = [ret EXCEPT ![t] = "throw"]
       ELSE /\ pc' = [pc EXCEPT ![t] = "xtransfer"]
            /\ UNCHANGED <<call, ret>>

\* the try block: the stream is opened and the data transferred.  The
\* thread is in the transfer from the moment it is at "xtransfer" until
\* this step, which ends it.
XioTransfer(t) ==
    LET p == XioProc(t)
        c == call[t]
    IN
    /\ pc[t] = "xtransfer"
    /\ pc' = [pc EXCEPT ![t] = "xunlock"]
    /\ IF FreeFds(ofd, p) = {} \/ dir[c.name] = 0
       THEN \* !stream.good(): throw; the handler unlocks and rethrows
            /\ call' = [call EXCEPT ![t].error = TRUE]
            /\ UNCHANGED content
       ELSE /\ content' = IF c.op = "xwrite"
                          THEN [content EXCEPT ![dir[c.name]] = <<1>>]
                          ELSE content
            /\ UNCHANGED call
    /\ UNCHANGED <<dir, ofd, flk, descriptors, ret>>

\* if(should_lock) unlock(filename), in the handler or after the try block
XioUnlock(t) ==
    LET p == XioProc(t)
        c == call[t]
    IN
    /\ pc[t] = "xunlock"
    /\ IF c.should_lock
       THEN UnlockEffect(p, c.name)
       ELSE UNCHANGED <<kernelVars, descriptors>>
    /\ pc' = [pc EXCEPT ![t] = "idle"]
    /\ call' = [call EXCEPT ![t] = NoXioCall]
    /\ ret' = [ret EXCEPT ![t] = IF c.error THEN "throw" ELSE c.op]

InitXio ==
    /\ dir = [p \in Paths |-> IF p = XioFile THEN 1 ELSE 0]
    /\ content = [i \in Inodes |-> EmptyFile]
    /\ ofd = [o \in Ofds |-> FreeOfd]
    /\ flk = [i \in Inodes |-> NoFd]
    /\ lockfiles = [p \in Procs |-> {}]
    /\ mtx = [p \in Procs |-> 0]
    /\ pc = [t \in Threads |-> "idle"]
    /\ call = [t \in Threads |-> NoXioCall]
    /\ guards = [t \in Threads |-> EmptyBag]
    /\ ret = [t \in Threads |-> "none"]
    /\ tdata = [t \in Threads |-> -1]
    /\ tstage = [t \in Threads |-> "none"]
    /\ views = [t \in Threads |-> EmptyBag]
    /\ descriptors = [p \in Procs |-> {}]
    /\ umask = [p \in Procs |-> 0]
    /\ mode = [i \in Inodes |-> 0]

xioFrame == <<lockfiles, mtx, guards, testVars, mapVars, modeVars>>

NextXio ==
    \E t \in Procs :
        \/ \E op \in {"xread", "xwrite"} : XioCall(t, op, XioFile) /\ UNCHANGED xioFrame
        \/ XioLock(t) /\ UNCHANGED xioFrame
        \/ XioTransfer(t) /\ UNCHANGED xioFrame
        \/ XioUnlock(t) /\ UNCHANGED xioFrame

SpecXio == InitXio /\ [][NextXio]_vars

\* ------------------- two threads of one process, and another process

\* the callers of SpecThreads: both threads of the first process and the
\* thread of the second
ThreadCallers == {1, 2, SecondThread}
ThreadPaths == {PathA, PathB}

InitThreads ==
    /\ dir = [p \in Paths |-> IF p = PathA THEN 1 ELSE IF p = PathB THEN 2 ELSE 0]
    /\ content = [i \in Inodes |-> IF i = 2 THEN <<1>> ELSE EmptyFile]
    /\ ofd = [o \in Ofds |-> FreeOfd]
    /\ flk = [i \in Inodes |-> NoFd]
    /\ lockfiles = [p \in Procs |-> {}]
    /\ mtx = [p \in Procs |-> 0]
    /\ pc = [t \in Threads |-> "idle"]
    /\ call = [t \in Threads |-> NoCall]
    /\ guards = [t \in Threads |-> EmptyBag]
    /\ ret = [t \in Threads |-> "none"]
    /\ tdata = [t \in Threads |-> -1]
    /\ tstage = [t \in Threads |-> "none"]
    /\ views = [t \in Threads |-> EmptyBag]
    /\ descriptors = [p \in Procs |-> {}]
    /\ umask = [p \in Procs |-> 0]
    /\ mode = [i \in Inodes |-> 0]

NextThreads ==
    \E t \in ThreadCallers :
        \/ \E path \in ThreadPaths, nb \in BOOLEAN :
               LockGuard(t, path, nb, FALSE) /\ UNCHANGED otherVars
        \/ LockOpen(t) /\ UNCHANGED otherVars
        \/ LockFlock(t) /\ UNCHANGED otherVars
        \/ \E g \in GuardT : DestroyGuard(t, g) /\ UNCHANGED otherVars

SpecThreads == InitThreads /\ [][NextThreads]_vars

\* ------------- guards of the filename-keyed locker inside one another

\* guards one thread has alive at one time in SpecNested
NestDepth == 2

\* the thread that nests guards, and the files its guards name
NestCaller == Min(Clients)
NestLists == {<<PathA>>, <<PathB>>, <<PathA, PathB>>}

\* auto guard = locker::lock_guard(names), possibly inside the scope of
\* another guard of the thread
NestedGuard(t, names) ==
    /\ BagCardinality(guards[t]) < NestDepth
    /\ NameCallBody(t, "lock_guard", names)

\* the nesting thread constructs and destroys guards; the other process
\* tries to lock and unlocks the same files
NextNested ==
    \E t \in Clients :
        \/ \E names \in NestLists :
               t = NestCaller /\ NestedGuard(t, names) /\ UNCHANGED nameFrame
        \/ TryLockStep(t) /\ UNCHANGED nameFrame
        \/ UnlockStep(t) /\ UNCHANGED nameFrame
        \/ \E g \in BagToSet(guards[t]) : NameDestroyGuard(t, g) /\ UNCHANGED nameFrame
        \/ \E name \in {PathA, PathB} :
               t # NestCaller /\ NameTryLock(t, name) /\ UNCHANGED nameFrame
        \/ \E name \in {PathA, PathB} :
               t # NestCaller /\ NameUnlock(t, name) /\ UNCHANGED nameFrame

SpecNested == InitName /\ [][NextNested]_vars

\* ------------------ try_lock(std::vector) of the filename-keyed locker

\* try_lock(filenames[i]) inside try_lock(std::vector): after true the loop
\* goes on with i + 1; after false the inner loop starts at j = i - 1.  The
\* call's position is i while it tries and j while it unlocks, and failed
\* keeps the i the inner loop returns to.
ListTryStep(t) ==
    LET p == ProcOf(t)
        c == call[t]
        name == c.names[c.i]
        r == TryLockResult(p, name)
    IN
    /\ pc[t] = "try"
    /\ c.op = "try_lock_list"
    /\ TryLockEffect(p, name, r)
    /\ CASE r = "throw" ->
                NameFinish(t, NameError(name))
         [] r \in {"true", "held"} ->
                IF c.i < Len(c.names)
                THEN /\ call' = [call EXCEPT ![t] =
                            [c EXCEPT !.i = c.i + 1,
                                      !.acquired = IF r = "true"
                                                   THEN Append(@, name) ELSE @]]
                     /\ UNCHANGED <<pc, ret>>
                ELSE NameFinish(t, "void")
         [] r = "false" ->
                IF c.i > 1
                THEN /\ call' = [call EXCEPT ![t] =
                            [c EXCEPT !.failed = c.i, !.i = c.i - 1]]
                     /\ pc' = [pc EXCEPT ![t] = "list_unlock"]
                     /\ UNCHANGED ret
                ELSE \* no file before this one: the outer loop goes on
                     IF c.i < Len(c.names)
                     THEN /\ call' = [call EXCEPT ![t] =
                                 [c EXCEPT !.failed = c.i, !.i = c.i + 1]]
                          /\ UNCHANGED <<pc, ret>>
                     ELSE NameFinish(t, "void")
    /\ UNCHANGED guards

\* unlock(filenames[j]) of the inner loop; after j = 0 the outer loop goes
\* on with the file after the one that was refused, and the call returns
\* nothing when there is none
ListUnlockStep(t) ==
    LET p == ProcOf(t)
        c == call[t]
    IN
    /\ pc[t] = "list_unlock"
    /\ UnlockEffect(p, c.names[c.i])
    /\ IF c.i > 1
       THEN /\ call' = [call EXCEPT ![t] =
                   [c EXCEPT !.i = c.i - 1, !.released = Append(@, c.names[c.i])]]
            /\ UNCHANGED <<pc, ret>>
       ELSE IF c.failed < Len(c.names)
            THEN /\ call' = [call EXCEPT ![t] =
                        [c EXCEPT !.i = c.failed + 1,
                                  !.released = Append(@, c.names[c.i])]]
                 /\ pc' = [pc EXCEPT ![t] = "try"]
                 /\ UNCHANGED ret
            ELSE NameFinish(t, "void")
    /\ UNCHANGED guards

\* the lists passed to try_lock(std::vector): two or three different files
TryLists == {names \in SeqsOf(LockNames, 2, MaxNames) :
                \A j, k \in 1 .. Len(names) : j # k => names[j] # names[k]}

\* the first process calls try_lock and unlock with lists; the second
\* tries to lock and unlocks one of the files
NextTryList ==
    \E t \in Clients :
        \/ \E names \in TryLists :
               /\ t \in MultiCallers
               /\ NameCallBody(t, "try_lock_list", names)
               /\ UNCHANGED nameFrame
        \/ \E names \in TryLists :
               /\ t \in MultiCallers
               /\ NameCallBody(t, "unlock", names)
               /\ UNCHANGED nameFrame
        \/ ListTryStep(t) /\ UNCHANGED nameFrame
        \/ ListUnlockStep(t) /\ UNCHANGED nameFrame
        \/ UnlockStep(t) /\ UNCHANGED nameFrame
        \/ t \notin MultiCallers /\ NameTryLock(t, PathB) /\ UNCHANGED nameFrame
        \/ t \notin MultiCallers /\ NameUnlock(t, PathB) /\ UNCHANGED nameFrame

SpecTryList == InitName /\ [][NextTryList]_vars

\* ------------------- release, statement by statement (part_004)

ReleaseOrderCloseFirst == <<"close", "unlink">>

\* the two system calls of release that change the file system, in the
\* order they are written
ReleaseOrder == <<"unlink", "close">>

\* one of the two calls, made by process p for descriptor o: unlink(filename)
\* when the file was found empty and keep-empty is off, or close(descriptor)
ReleaseStatement(p, o, path, empty, what) ==
    CASE what = "unlink" ->
             /\ dir' = IF empty THEN [dir EXCEPT ![path] = 0] ELSE dir
             /\ content' = ContentAfter(dir', ofd, content)
             /\ UNCHANGED <<ofd, flk>>
      [] what = "close" ->
             /\ ofd' = OfdAfterClose(ofd, o, p)
             /\ flk' = FlkAfterClose(ofd, flk, o, p)
             /\ content' = ContentAfter(dir, ofd', content)
             /\ UNCHANGED dir

\* ~lock_guard_t of the live guard g of thread t, up to the first of the two
\* calls of release: unlock<keep>(id) takes lockfiles_mutex and decrements;
\* when the count is zero release makes its checks (fstat, readlink, stat,
\* fsync, lseek) and the first call.  An unlock that does not come that far
\* is the whole of Unlock.
ReleaseBegin(t, g) ==
    LET p == ProcOf(t)
        reg == lockfiles[p]
    IN
    /\ pc[t] = "idle"
    /\ BagIn(g, guards[t])
    /\ mtx[p] = 0
    /\ guards' = [guards EXCEPT ![t] = @ (-) SetToBag({g})]
    /\ IF /\ Contains(reg, g.id)
          /\ Decrement(At(reg, g.id).num_locks) <= 0
          /\ ~ReleaseThrows(dir, ofd, At(reg, g.id).descriptor, g.keep)
       THEN LET e == At(reg, g.id)
                o == e.descriptor
                path == FdPath(dir, ofd, o)
                empty == ReleaseUnlinks(dir, ofd, content, o, g.keep)
            IN
            /\ lockfiles' = [lockfiles EXCEPT ![p] =
                   (@ \ {e}) \cup {[e EXCEPT !.num_locks = Decrement(@)]}]
            /\ ReleaseStatement(p, o, path, empty, ReleaseOrder[1])
            /\ mtx' = [mtx EXCEPT ![p] = t]
            /\ pc' = [pc EXCEPT ![t] = "release2"]
            /\ call' = [call EXCEPT ![t] =
                   [NoCall EXCEPT !.op = IF empty THEN "release_empty" ELSE "release",
                                  !.path = path, !.desc = o, !.id = g.id,
                                  !.keep = g.keep]]
            /\ UNCHANGED ret
       ELSE /\ Unlock(t, g.id, g.keep)
            /\ UNCHANGED <<mtx, pc, call>>

\* the second of the two calls of release, and the erase that follows it
ReleaseEnd(t) ==
    LET p == ProcOf(t)
        c == call[t]
    IN
    /\ pc[t] = "release2"
    /\ ReleaseStatement(p, c.desc, c.path, c.op = "release_empty", ReleaseOrder[2])
    /\ lockfiles' = [lockfiles EXCEPT ![p] = Erase(@, c.id)]
    /\ Finish(t, "released")
    /\ UNCHANGED guards

NextRelease ==
    \E t \in Clients :
        \/ \E path \in LockPaths, keep \in BOOLEAN :
               LockGuard(t, path, FALSE, keep) /\ UNCHANGED otherVars
        \/ LockOpen(t) /\ UNCHANGED otherVars
        \/ LockFlock(t) /\ UNCHANGED otherVars
        \/ \E g \in GuardT : ReleaseBegin(t, g) /\ UNCHANGED otherVars
        \/ ReleaseEnd(t) /\ UNCHANGED otherVars
        \/ \E path \in LockPaths, data \in WriteChoices :
               WriteFile(t, path, data) /\ UNCHANGED otherVars

SpecRelease == Init /\ [][NextRelease]_vars

\* ------------------ permission bits of a created lockfile (part_004)

\* the mode argument of open: 0666
OpenMode == 438

\* the values of a file mode creation mask: nine permission bits
Masks == 0 .. 511

\* the bits of a that are not bits of b (a & ~b)
RECURSIVE AndNot(_, _)
AndNot(a, b) ==
    IF a = 0 THEN 0
    ELSE (IF a % 2 = 1 /\ b % 2 = 0 THEN 1 ELSE 0) + 2 * AndNot(a \div 2, b \div 2)

UmaskForOpenKept(mask) == mask

\* the mask in force while lock calls open, when the process had mask
\* before: lock calls umask(0) first
UmaskForOpen(mask) == 0

\* the effect of "mask = umask(0); open(path, O_RDWR | O_CREAT, 0666);
\* umask(mask);" in a pass of lock by thread t on the mask of the process
\* and on the permission bits: a file that open creates gets the bits of
\* the mode argument that are not in the mask in force
ModeAfterOpen(t, path) ==
    LET p == ProcOf(t)
        mask == umask[p]
    IN
    /\ mode' = IF CanOpen(dir, ofd, path, p) /\ dir[path] = 0
               THEN [mode EXCEPT ![DirAfterOpen(dir, ofd, path)[path]] =
                        AndNot(OpenMode, UmaskForOpen(mask))]
               ELSE mode
    /\ umask' = [umask EXCEPT ![p] = mask]

\* no file yet, and the processes run under any one mask
InitMode ==
    /\ dir = [p \in Paths |-> 0]
    /\ content = [i \in Inodes |-> EmptyFile]
    /\ ofd = [o \in Ofds |-> FreeOfd]
    /\ flk = [i \in Inodes |-> NoFd]
    /\ lockfiles = [p \in Procs |-> {}]
    /\ mtx = [p \in Procs |-> 0]
    /\ pc = [t \in Threads |-> "idle"]
    /\ call = [t \in Threads |-> NoCall]
    /\ guards = [t \in Threads |-> EmptyBag]
    /\ ret = [t \in Threads |-> "none"]
    /\ tdata = [t \in Threads |-> -1]
    /\ tstage = [t \in Threads |-> "none"]
    /\ views = [t \in Threads |-> EmptyBag]
    /\ descriptors = [p \in Procs |-> {}]
    /\ \E m \in Masks : umask = [p \in Procs |-> m]
    /\ mode = [i \in Inodes |-> 0]

modeFrame == <<testVars, mapVars, nameVars>>

NextMode ==
    \E t \in Clients :
        \/ LockGuard(t, PathA, FALSE, FALSE) /\ ModeAfterOpen(t, PathA)
              /\ UNCHANGED modeFrame
        \/ LockOpen(t) /\ ModeAfterOpen(t, call[t].path) /\ UNCHANGED modeFrame
        \/ LockFlock(t) /\ UNCHANGED otherVars
        \/ \E g \in GuardT : DestroyGuard(t, g) /\ UNCHANGED otherVars

SpecMode == InitMode /\ [][NextMode]_vars

\* ---------------------------------------------------------------- claims

HasGuard(t) == BagCardinality(guards[t]) > 0

ThreadsOf(p) == {t \in Threads : ProcOf(t) = p}

\* the number of live lock_guard_t objects of process p on identity id
RECURSIVE GuardsIn(_, _)
GuardsIn(T, id) ==
    IF T = {} THEN 0
    ELSE LET t == CHOOSE x \in T : TRUE IN
         CopiesIn([id |-> id, keep |-> FALSE], guards[t])
         + CopiesIn([id |-> id, keep |-> TRUE], guards[t])
         + GuardsIn(T \ {t}, id)

LiveGuards(p, id) == GuardsIn(ThreadsOf(p), id)

\* the descriptors of in-progress lock calls of process p
PendingFds(p) == {call[t].desc : t \in {u \in ThreadsOf(p) : pc[u] = "flock"}}

\* C1: in the fork test no two children are at the same time between a
\* completed guard construction and the start of its destruction, and when
\* all NumForks children have finished the file holds the initial value 0
\* plus NumForks.
C1_NoLostUpdate ==
    /\ \A t \in Children : \A u \in Children :
           t # u => ~(HasGuard(t) /\ HasGuard(u))
    /\ (\A t \in Children : tstage[t] = "done")
           => dir[TestFile] # 0 /\ Parse(content[dir[TestFile]]) = NumForks

C1_AllDone == \A t \in Children : tstage[t] = "done"

\* C2: a process that acquired an identity k times and released it j < k
\* times has its entry present with count k - j and holds the kernel lock
\* through the entry's descriptor; with as many releases as acquisitions the
\* entry is gone, the process holds no kernel lock on the file and has no
\* descriptor of it open besides those of calls still in progress.
C2_Reentrant ==
    \A p \in Procs : \A i \in Inodes :
        LET id == Key(i, Dev)
            n == LiveGuards(p, id)
        IN
        IF n >= 1
        THEN /\ Contains(lockfiles[p], id)
             /\ At(lockfiles[p], id).num_locks = n
             /\ flk[i] = At(lockfiles[p], id).descriptor
             /\ ofd[flk[i]].ino = i
             /\ p \in ofd[flk[i]].refs
        ELSE /\ ~Contains(lockfiles[p], id)
             /\ flk[i] = NoFd \/ p \notin ofd[flk[i]].refs
             /\ \A o \in Ofds :
                    (ofd[o].ino = i /\ p \in ofd[o].refs) => o \in PendingFds(p)

\* one of two nested acquisitions was released: the entry is left with count 1
C2_ReleasedOnce ==
    \E t \in Threads :
        /\ ret[t] = "kept"
        /\ \E e \in lockfiles[ProcOf(t)] :
               e.num_locks = 1 /\ flk[e.key.inode] = e.descriptor

\* process p has an entry for the file of inode i
Registered(p, i) == \E e \in lockfiles[p] : e.key.inode = i

\* C3: a process never waits in flock for a file it already holds, under
\* whatever path it opened it; every entry owns the one kernel lock of its
\* file; and no two processes have the same file registered, so a process
\* that asks for it through either path waits or fails until it is released.
C3_OneEntryPerFile ==
    /\ \A t \in Threads :
           pc[t] = "flock" =>
               ~Registered(ProcOf(t), ofd[call[t].desc].ino)
    /\ \A p \in Procs : \A e \in lockfiles[p] :
           /\ flk[e.key.inode] = e.descriptor
           /\ \A f \in lockfiles[p] : f.key.inode = e.key.inode => f = e
    /\ \A p \in Procs : \A q \in Procs : \A i \in Inodes :
           p # q => ~(Registered(p, i) /\ Registered(q, i))

\* a second acquisition came through another path than the one the entry's
\* descriptor was opened by, and was counted on that entry
C3_CountedThroughAlias ==
    \E t \in Threads :
        /\ ret[t] = "counted_alias"
        /\ \E e \in lockfiles[ProcOf(t)] : e.num_locks >= 2

\* C4: two files of different inode on one device are different keys: every
\* file a thread has a guard on has an entry of its own in the registry of
\* its process, keyed by that file's inode and device, and the entry's
\* descriptor is open on that file and holds its kernel lock.
C4_SeparateEntries ==
    \A t \in Threads : \A g \in BagToSet(guards[t]) :
        \E e \in lockfiles[ProcOf(t)] :
            /\ e.key = g.id
            /\ ofd[e.descriptor].ino = g.id.inode
            /\ flk[g.id.inode] = e.descriptor

\* C5: the count of every registry entry is the number of live guards of its
\* process on its identity; a construction that raised an error left it so.
C5_CountIsGuards ==
    \A p \in Procs : \A e \in lockfiles[p] :
        e.num_locks = LiveGuards(p, e.key)

\* a guard construction raised an error in a process that holds guards
C5_FailedConstruction ==
    \E t \in Threads :
        /\ ret[t] = "throw"
        /\ HasGuard(t)
        /\ lockfiles[ProcOf(t)] # {}

\* the entry a step of thread t erases, as a set (empty when none)
ErasedBy(t) ==
    {e \in lockfiles[ProcOf(t)] :
        ~Contains(lockfiles'[ProcOf(t)], e.key) /\ ret'[t] = "released"
        /\ guards'[t] # guards[t]}

\* C9: the release that brings a count to zero, keep-empty not requested,
\* unlinks the path of the locked file when the file is still linked there
\* and empty (a file created by the lock and never written leaves nothing
\* on disk), and leaves directory and content alone when it is not empty.
C9_UnlinkIffEmpty ==
    [][\A t \in Threads : \A e \in ErasedBy(t) :
          LET i == e.key.inode
              path == FdPath(dir, ofd, e.descriptor)
          IN
          /\ (path \in Paths /\ Len(content[i]) = 0) => dir'[path] = 0
          /\ (path \in Paths /\ Len(content[i]) = 0 /\ NLink(dir, i) = 1)
                 => NLink(dir', i) = 0
          /\ Len(content[i]) # 0 => dir' = dir /\ content'[i] = content[i]
      ]_vars

\* an empty lockfile was released and its path is gone
C9_EmptyUnlinked ==
    \E t \in Threads : ret[t] = "released" /\ dir[PathA] = 0

\* the names in a registry of the filename-keyed locker
HeldIn(reg) == {e.name : e \in reg}

\* C6: when the variadic try_lock returns false because try_lock of one of
\* its files returned false, the files before that one are not in the
\* registry any more, and no file after it was locked by the call.
C6_TryLockRollsBack ==
    [][\A t \in Threads :
          (/\ call[t].op = "try_lock"
           /\ pc[t] \in {"try", "rollback"}
           /\ pc'[t] = "idle"
           /\ ret'[t] \in {"false", "false_rolled_back"})
          => LET c == call[t]
                 k == IF pc[t] = "try" THEN c.i ELSE c.failed
                 held == HeldIn(descriptors'[ProcOf(t)])
             IN
             /\ \A j \in 1 .. (k - 1) : c.names[j] \notin held
             /\ \A j \in (k + 1) .. Len(c.names) :
                    c.names[j] \in held => c.names[j] \in c.before
      ]_vars

\* try_lock of several files returned false after releasing what it had
\* locked, while another process holds a file
C6_RefusedAndRolledBack ==
    /\ ret[1] = "false_rolled_back"
    /\ pc[1] = "idle"
    /\ Held(1) = {}
    /\ \E p \in Procs \ {1} : PathB \in Held(p)

\* C7: when a multi-file try_lock, lock or lock_guard raises an error, the
\* files the call had locked before the error are not in the registry any
\* more.
C7_ErrorReleasesAcquired ==
    [][\A t \in Threads :
          (/\ call[t].op \in {"try_lock", "lock", "lock_guard"}
           /\ pc[t] = "try"
           /\ pc'[t] = "idle"
           /\ ret'[t] \in NameErrors)
          => \A j \in 1 .. Len(call[t].acquired) :
                 call[t].acquired[j] \notin HeldIn(descriptors'[ProcOf(t)])
      ]_vars

\* C8: unlock of a list of files and the destruction of a guard release
\* the files last name first: the i-th step releases no other file than the
\* i-th from the end, after the files behind it.
C8_ReverseOrder ==
    [][\A t \in Threads :
          (pc[t] = "unlock" /\ call'[t] # call[t])
          => LET c == call[t]
                 n == Len(c.names)
                 p == ProcOf(t)
             IN
             /\ HeldIn(descriptors[p]) \ HeldIn(descriptors'[p])
                    \subseteq {c.names[n + 1 - c.i]}
             /\ c.released = [k \in 1 .. (c.i - 1) |-> c.names[n + 1 - k]]
             /\ \A k \in 1 .. (c.i - 1) : c.names[n + 1 - k] \notin HeldIn(descriptors[p])
      ]_vars

\* a release of several files is under way: the last name, held when the
\* call began, is released and the first is still held
C8_LastReleasedFirst ==
    \E t \in Threads :
        LET c == call[t]
            n == Len(c.names)
        IN
        /\ pc[t] = "unlock"
        /\ c.op \in {"unlock", "~lock_guard_t"}
        /\ c.i = 2
        /\ c.names[1] # c.names[n]
        /\ c.names[n] \in c.before
        /\ c.names[n] \notin Held(ProcOf(t))
        /\ c.names[1] \in Held(ProcOf(t))

\* C10: xmap of a file that is there returns: the thread is never left
\* waiting for the mutex of its own process, the call raises no error of
\* the mutex or of mmap, and every view it returned is counted in an entry
\* of that file.
C10_XmapReturns ==
    \A t \in Threads :
        /\ pc[t] # "deadlock"
        /\ ret[t] \notin {"system_error", "map_failed"}
        /\ \A v \in BagToSet(views[t]) :
               \E e \in lockfiles[ProcOf(t)] : e.key = v.id /\ e.num_locks >= 1

\* the registry entry found for the identity of the mapping v of thread t
\* counts at least one lock, on the descriptor that is mapped, and that
\* descriptor owns the kernel lock of its file
ViewLocked(t, v) ==
    LET reg == lockfiles[ProcOf(t)] IN
    /\ MapContains(reg, v.id)
    /\ MapAt(reg, v.id).num_locks >= 1
    /\ MapAt(reg, v.id).descriptor = v.descriptor
    /\ flk[ofd[v.descriptor].ino] = v.descriptor

\* C11: a mapping is open only inside the lock of its view.  After every
\* step each open mapping is locked; a mapping is created by a constructor
\* that already holds the lock; a mapping is closed only after msync wrote
\* it back and without touching the registry; and the destructor changes
\* the registry only when its mapping is closed.
C11_MappingInsideLock ==
    [][\A t \in Threads :
          /\ \A v \in BagToSet(views'[t]) : ViewLocked(t, v)'
          /\ BagCardinality(views'[t]) > BagCardinality(views[t]) =>
                 /\ pc[t] = "mmap"
                 /\ MapContains(lockfiles[ProcOf(t)], call[t].id)
                 /\ MapAt(lockfiles[ProcOf(t)], call[t].id).num_locks >= 1
          /\ BagCardinality(views'[t]) < BagCardinality(views[t]) =>
                 /\ call[t].view.synced
                 /\ lockfiles' = lockfiles
          /\ (pc[t] \in {"destroy2", "destroy3"}
                 /\ lockfiles'[ProcOf(t)] # lockfiles[ProcOf(t)]) =>
                 /\ ~BagIn(call[t].view, views[t])
                 /\ pc'[t] = "idle"
      ]_vars

\* a destructor has written back and closed its mapping and has not yet
\* released the lock
C11_UnmappedBeforeUnlock ==
    \E t \in Threads :
        /\ pc[t] = "destroy3"
        /\ call[t].view.synced
        /\ ~BagIn(call[t].view, views[t])
        /\ MapContains(lockfiles[ProcOf(t)], call[t].view.id)

\* the objects of thread t that hold a lock and are neither a guard of the
\* caller nor an open mapping: a view under construction after lock
\* returned, a view whose destructor has unmapped and not yet unlocked, the
\* guard of a helper
PendingViewIds(t) ==
    IF pc[t] \in {"mmap"} \cup HelperOps THEN {call[t].id}
    ELSE IF pc[t] = "destroy3" THEN {call[t].view.id}
    ELSE {}

\* the locks the objects of process p hold on the entry e
MapHolders(p, e) ==
    LET OfBag(b) ==
            LET S == {x \in BagToSet(b) : MapKeyEquiv(x.id, e.key)}
                RECURSIVE Sum(_)
                Sum(T) == IF T = {} THEN 0
                          ELSE LET x == CHOOSE y \in T : TRUE
                               IN CopiesIn(x, b) + Sum(T \ {x})
            IN Sum(S)
        RECURSIVE Total(_)
        Total(T) ==
            IF T = {} THEN 0
            ELSE LET t == CHOOSE u \in T : TRUE IN
                 OfBag(guards[t]) + OfBag(views[t])
                 + Cardinality({i \in PendingViewIds(t) : MapKeyEquiv(i, e.key)})
                 + Total(T \ {t})
    IN Total({t \in Threads : ProcOf(t) = p})

\* C12: a view constructor that failed after lock returned leaves no lock
\* behind: the count of every entry is the number of guards, of mappings
\* and of views being constructed or destroyed that hold it, so after the
\* failure the count is what it was before the call.
C12_FailedViewReleases ==
    \A p \in Procs : \A e \in lockfiles[p] : e.num_locks = MapHolders(p, e)

\* a constructor failed in mmap while its thread held a guard on the file,
\* which is still registered once
C12_MapFailedUnderGuard ==
    \E t \in Threads :
        /\ ret[t] = "map_failed"
        /\ BagCardinality(guards[t]) = 1
        /\ \E e \in lockfiles[ProcOf(t)] : e.num_locks = 1

\* the last call of thread t was at(), made on a view of the file of n bytes
AtCalled(t) == call[t].op = "at"

\* C13: a view of a file of n bytes with elements of w bytes has size()
\* floor(n / w), and an at() that returned read the bytes of an element
\* that ends at or before offset floor(n / w) * w.
C13_SizeIsWholeElements ==
    \A t \in Threads :
        /\ \A v \in BagToSet(views[t]) :
               LET n == Len(content[ofd[v.descriptor].ino]) IN
               /\ v.data_size * v.width <= n
               /\ n < (v.data_size + 1) * v.width
        /\ (AtCalled(t) /\ ret[t] = "element") =>
               LET v == call[t].view
                   n == Len(content[1])
               IN (call[t].index + 1) * v.width <= (n \div v.width) * v.width

\* at() returned the last element of a view whose file has a trailing byte
\* that is part of no element
C13_TrailingByteHidden ==
    \E t \in Threads :
        /\ AtCalled(t)
        /\ ret[t] = "element"
        /\ tdata[t] # Garbage
        /\ call[t].view.width = 2
        /\ call[t].index = call[t].view.data_size - 1
        /\ Len(content[1]) = call[t].view.data_size * 2 + 1

\* C14: at(i) raises the out-of-range error exactly when i >= size(), and
\* then changes nothing else; for every i < size() it returns element i of
\* the file.
C14_AtChecked ==
    [][\A t \in Threads :
          (AtCalled(t)' /\ pc[t] = "idle"
              /\ <<call[t], ret[t], tdata[t], pc[t]>>
                     # <<call'[t], ret'[t], tdata'[t], pc'[t]>>) =>
             LET v == call'[t].view
                 i == call'[t].index
             IN
             IF i >= v.data_size
             THEN /\ ret'[t] = "out_of_range"
                  /\ UNCHANGED <<kernelVars, lockfiles, views, guards, tdata, pc>>
             ELSE /\ ret'[t] = "element"
                  /\ tdata'[t] = ElementAt(content[ofd[v.descriptor].ino], i, v.width)
                  /\ UNCHANGED <<kernelVars, lockfiles, views, guards, pc>>
      ]_vars

\* process p owns the open file description o
OwnedBy(p, o) == o # NoFd /\ p \in ofd[o].refs

\* C15: when a helper (read, write) has returned or raised, the count of
\* its file is what it was before the call; the process holds kernel locks
\* and open descriptors only for the entries of its registry, so with a
\* count of zero before the call the kernel lock is released.
C15_HelperRestoresCount ==
    \A t \in Threads :
        tstage[t].step \in {"returned", "raised"} =>
            LET p == ProcOf(t) IN
            /\ CountOf(p, tstage[t].path) = tstage[t].before
            /\ \A i \in Inodes :
                   OwnedBy(p, flk[i]) =>
                       \E e \in lockfiles[p] :
                           e.descriptor = flk[i] /\ e.num_locks >= 1
            /\ \A o \in Ofds :
                   OwnedBy(p, o) => \E e \in lockfiles[p] : e.descriptor = o

\* a helper raised an error of its stream while its process held other
\* files, and the file of the helper is no longer locked
C15_RaisedAndReleased ==
    \E t \in Threads :
        /\ tstage[t].step = "raised"
        /\ ret[t] = "released"
        /\ tstage[t].before = 0
        /\ lockfiles[ProcOf(t)] # {}

\* C16: a helper called on a file its process holds a guard on takes the
\* count path of lock and never stands in front of flock, and whatever the
\* helpers do, every live guard keeps its entry: counted once for each
\* holder (so, when the helper has returned, as before the call), on a
\* descriptor that owns the kernel lock.
C16_HelperKeepsOuterLock ==
    \A t \in Threads :
        /\ \A g \in BagToSet(guards[t]) :
               LET reg == lockfiles[ProcOf(t)] IN
               /\ MapContains(reg, g.id)
               /\ MapAt(reg, g.id).num_locks = MapHolders(ProcOf(t), MapAt(reg, g.id))
               /\ MapAt(reg, g.id).num_locks >= BagCardinality(guards[t])
               /\ flk[ofd[MapAt(reg, g.id).descriptor].ino] = MapAt(reg, g.id).descriptor
        /\ (call[t].op \in HelperOps /\ pc[t] = "flock") =>
               \A g \in BagToSet(guards[t]) :
                   ~MapKeyEquiv(g.id, Key(ofd[call[t].desc].ino, Dev))

\* xwrite returned under a guard on the same file, which is still held once
C16_HelperReturnedUnderGuard ==
    \E t \in Threads :
        /\ ret[t] = "xwrite"
        /\ pc[t] = "idle"
        /\ BagCardinality(guards[t]) = 1
        /\ \E g \in BagToSet(guards[t]) :
               /\ g.id = Key(dir[PathA], Dev)
               /\ MapAt(lockfiles[ProcOf(t)], g.id).num_locks = 1

\* C17: a thread of the filename-keyed locker that is transferring data in
\* xread or xwrite belongs to a process that holds the file: the name is in
\* the registry of its process and the registered descriptor owns the
\* kernel lock.
C17_TransferUnderLock ==
    \A t \in Threads :
        pc[t] = "xtransfer" =>
            \E e \in descriptors[XioProc(t)] :
                /\ e.name = call[t].name
                /\ flk[ofd[e.descriptor].ino] = e.descriptor

\* C18: in the fork test with a fair scheduler every child eventually has
\* locked the file, done its update and terminated, so that the parent's
\* wait() has a status to collect for each of them and its loop ends.
C18_AllChildrenFinish == <>(\A t \in Children : tstage[t] = "done")

\* a child waits in flock while another child holds the file
C18_ChildWaits ==
    \E t, u \in Children :
        /\ t # u
        /\ pc[t] = "flock"
        /\ tstage[u] \in {"guard", "read", "wrote"}
        /\ HasGuard(u)

\* the parent has released the file: it has no guard and no entry left
ParentReleased ==
    /\ tstage[ForkChild] = "forked"
    /\ guards[ForkParent] = EmptyBag
    /\ lockfiles[ForkParent] = {}

\* the child's lock call has returned with the file held by the child
ChildHolds ==
    /\ pc[ForkChild] = "idle"
    /\ \E e \in lockfiles[ForkChild] :
           /\ e.pid = Pid(ForkChild)
           /\ flk[e.key.inode] = e.descriptor

\* C19: a child forked while its parent held the file and waiting in lock
\* for that file gets it once the parent has released it: from every state
\* in which the parent has released and the child is inside lock, a state
\* follows in which the child's call has returned and the child holds the
\* file.
C19_ChildLocksAfterRelease ==
    (ParentReleased /\ pc[ForkChild] \in {"open", "flock"}) ~> ChildHolds

\* the name the call of thread t is about to pass to try_lock(filename) or
\* unlock(filename)
CurrentName(t) ==
    IF pc[t] = "try" THEN call[t].names[call[t].i]
    ELSE UnlockOrder(call[t].names)[call[t].i]

\* C20: try_lock(filename) and unlock(filename), called directly or by lock,
\* lock_guard, the guard's destructor or a multi-file call, with the empty
\* name or a name that ends in '/', raise "filename must not be empty" and
\* change neither the directory, the files, the open descriptors, the locks
\* nor the registry.
C20_InvalidNameTouchesNothing ==
    [][\A t \in Threads :
          (/\ pc[t] \in {"try", "unlock"}
           /\ CurrentName(t) \in {NameEmpty, NameSlash}
           /\ call'[t] # call[t])
          => /\ pc'[t] = "idle"
             /\ ret'[t] = "throw_empty"
             /\ UNCHANGED <<dir, content, ofd, flk, descriptors>>
      ]_vars

\* a call was given a name that is none and raised the error, and its
\* process has no name registered and no descriptor open
C20_InvalidNameRaised ==
    \E t \in Threads :
        /\ pc[t] = "idle"
        /\ ret[t] = "throw_empty"
        /\ descriptors[ProcOf(t)] = {}
        /\ \A o \in Ofds : ProcOf(t) \notin ofd[o].refs

\* the paths of the file system that name no regular file
NotRegular == {path \in Paths : dir[path] # 0 /\ path \in {PathDir, PathFifo}}

\* C21: nothing is locked or registered for a path that exists and names no
\* regular file: no open file description holds the kernel lock of its
\* inode, and no registry has an entry for it.
C21_NonRegularNotLocked ==
    \A path \in NotRegular :
        /\ flk[dir[path]] = NoFd
        /\ \A p \in Procs : ~Contains(lockfiles[p], Key(dir[path], Dev))

\* the guards a step of thread t destroys
Destroyed(t) == BagToSet(guards[t] (-) guards'[t])

\* C22: the final release of a held file whose path names no file any more
\* raises an error: a guard destruction that brings the count of an entry to
\* zero while the path its descriptor was opened by is gone ends with the
\* error of unlock.
C22_DeletedReleaseReports ==
    [][\A t \in Threads : \A e \in lockfiles[ProcOf(t)] :
          (/\ \E g \in Destroyed(t) : g.id = e.key
           /\ e.num_locks = 1
           /\ dir[ofd[e.descriptor].path] = 0)
          => ret'[t] = "unlock_throw"
      ]_vars

\* the kernel lock of the file called name is held through a descriptor of
\* a process other than p
LockedElsewhere(p, name) ==
    /\ name \in LockNames
    /\ dir[name] # 0
    /\ flk[dir[name]] # NoFd
    /\ flk[dir[name]][1] # p

\* C23: try_lock(filename) on a file whose kernel lock another process holds
\* does not wait: the step is taken, and it leaves the directory, the open
\* descriptors, the locks and the registry as they were; a try_lock call
\* refused on its first file returns false.
C23_RefusedTryLock ==
    [][\A t \in Threads :
          (/\ pc[t] = "try"
           /\ LockedElsewhere(ProcOf(t), call[t].names[call[t].i])
           /\ call[t].names[call[t].i] \notin Held(ProcOf(t))
           /\ (pc'[t] # pc[t] \/ call'[t] # call[t]))
          => /\ UNCHANGED <<dir, content, ofd, flk, descriptors>>
             /\ call[t].op = "try_lock" => pc'[t] # "try"
             /\ (call[t].op = "try_lock" /\ call[t].i = 1)
                    => (pc'[t] = "idle" /\ ret'[t] = "false")
      ]_vars

\* try_lock returned false to a process that holds nothing and has no
\* descriptor open, while another process holds a file
C23_TryLockReturnedFalse ==
    \E t \in Threads :
        /\ pc[t] = "idle"
        /\ ret[t] = "false"
        /\ descriptors[ProcOf(t)] = {}
        /\ \A o \in Ofds : ProcOf(t) \notin ofd[o].refs
        /\ \E q \in Procs \ {ProcOf(t)} : descriptors[q] # {}

\* thread t is inside the list form of lock, holds the file called has and
\* is trying the file called wants
HoldsAndWaits(t, has, wants) ==
    /\ pc[t] = "try"
    /\ call[t].op = "lock_guard"
    /\ call[t].names[call[t].i] = wants
    /\ has \in Held(ProcOf(t))
    /\ wants \notin Held(ProcOf(t))

\* two processes each hold one of the two files and try the other
C24_Deadlocked ==
    \E t, u \in ListCallers :
        /\ t # u
        /\ HoldsAndWaits(t, PathA, PathB)
        /\ HoldsAndWaits(u, PathB, PathA)

\* C24: two processes that lock [A, B] and [B, A] with the list form of
\* lock reach a state in which each holds one file and tries the other, and
\* no step leads out of it: they wait forever.
C24_DeadlockIsForever == [][C24_Deadlocked => C24_Deadlocked']_vars

\* process p has the file called name registered, under a descriptor that is
\* open on the file the name stands for and holds its kernel lock, in the
\* state with directory d, descriptors of, locks fl and registry reg
HeldAndLocked(d, of, fl, reg, name) ==
    \E e \in reg :
        /\ e.name = name
        /\ of[e.descriptor].ino = d[name]
        /\ fl[d[name]] = e.descriptor

\* C25: lock returns normally only with every file passed to it registered
\* by the calling process and locked in the kernel: the step that ends the
\* variadic lock, or the list form called by a guard's constructor (which
\* calls the single form for each file), ends in such a state.
C25_LockReturnsHolding ==
    [][\A t \in Threads :
          (/\ pc[t] = "try"
           /\ call[t].op \in {"lock", "lock_guard"}
           /\ pc'[t] = "idle"
           /\ ret'[t] = "void")
          => \A k \in 1 .. Len(call[t].names) :
                 HeldAndLocked(dir', ofd', flk', descriptors'[ProcOf(t)],
                               call[t].names[k])
      ]_vars

\* a guard over two different files was constructed and its process holds
\* both of them while another process holds a file too
C25_ListLocked ==
    \E t \in Threads : \E g \in BagToSet(guards[t]) :
        /\ pc[t] = "idle"
        /\ ret[t] = "void"
        /\ Cardinality({g.filenames[k] : k \in 1 .. Len(g.filenames)}) > 1
        /\ \A k \in 1 .. Len(g.filenames) :
               HeldAndLocked(dir, ofd, flk, descriptors[ProcOf(t)], g.filenames[k])
        /\ \E q \in Procs \ {ProcOf(t)} : descriptors[q] # {}

\* C26: the destructor of the registry releases every entry that can be
\* released, also when the release of another entry fails, raises no error
\* and leaves the registry empty: after it the process has none of the
\* descriptors of the entries whose release does not fail, and no entry.
C26_TeardownReleasesAll ==
    [][\A p \in Procs :
          (tstage[p] = "none" /\ tstage'[p] = "torn_down")
          => /\ lockfiles'[p] = {}
             /\ ret'[p] = "torn_down"
             /\ \A e \in lockfiles[p] :
                    ~ReleaseThrows(dir, ofd, e.descriptor, TRUE)
                       => /\ p \notin ofd'[e.descriptor].refs
                          /\ flk'[e.key.inode] # e.descriptor
      ]_vars

\* the registry was torn down with two entries in it; the release of the
\* entry of the FIFO failed and its descriptor is still open, the other
\* file is released
C26_TornDownPastError ==
    \E p \in Procs :
        /\ tstage[p] = "torn_down"
        /\ lockfiles[p] = {}
        /\ \E o \in Ofds : p \in ofd[o].refs /\ ofd[o].path = PathFifo
        /\ \A o \in Ofds : p \in ofd[o].refs => ofd[o].path = PathFifo
        /\ flk[dir[PathA]] = NoFd
        /\ flk[dir[PathFifo]] # NoFd

\* C27: the typed read of a file of n bytes with element width w makes
\* floor(n / w) elements and stores exactly floor(n / w) * w bytes in them,
\* never more than the buffer holds.
C27_ReadFillsWholeElements ==
    \A t \in Threads :
        tstage[t].step \in {"done", "returned", "killed"}
        => /\ tstage[t].elements = tstage[t].bytes \div tstage[t].width
           /\ tstage[t].copied = tstage[t].elements * tstage[t].width
           /\ tstage[t].copied <= tstage[t].buffer

\* C28: release with the keep-empty option, and the release of the
\* registry's destructor, unlink nothing: the destruction of a keep-empty
\* guard and the teardown of a registry leave every directory entry as it
\* was, also that of an empty file released for good.
C28_KeepEmptyNeverUnlinks ==
    [][\A t \in Threads :
          (\/ /\ tstage'[t] = tstage[t]
               /\ Destroyed(t) # {}
               /\ \A g \in Destroyed(t) : g.keep
           \/ tstage[t] = "none" /\ tstage'[t] = "torn_down")
          => dir' = dir
      ]_vars

\* an empty file was released for good by the destruction of a keep-empty
\* guard and is still there: nobody has it open or locked
C28_EmptyFileKept ==
    \E t \in Threads :
        /\ ret[t] = "released"
        /\ guards[t] = EmptyBag
        /\ dir[PathA] # 0
        /\ Len(content[dir[PathA]]) = 0
        /\ flk[dir[PathA]] = NoFd
        /\ \A o \in Ofds : ofd[o].path # PathA

\* C29: a lock call that returns after taking the kernel lock has found, at
\* its re-stat, the path naming the still linked file it locked, and that
\* file's identity is the one registered with the locked descriptor; a call
\* whose path names no file or another file when the flock step is taken
\* has its descriptor closed and its kernel lock dropped, registers
\* nothing, and goes back to open (or, non-blocking and refused, raises).
C29_RegisteredIsLocked ==
    [][\A t \in Threads :
          LET p == ProcOf(t)
              o == call[t].desc
              i == ofd[o].ino
              path == call[t].path
          IN
          (pc[t] = "flock" /\ pc'[t] # "flock")
          => /\ (pc'[t] = "idle" /\ ret'[t] = "locked")
                   => /\ dir'[path] = i
                      /\ NLink(dir', i) > 0
                      /\ flk'[i] = o
                      /\ \E e \in lockfiles'[p] :
                             e.key = Key(i, Dev) /\ e.descriptor = o
             /\ dir[path] # i
                   => /\ p \notin ofd'[o].refs
                      /\ flk'[i] # o
                      /\ lockfiles'[p] = lockfiles[p]
                      /\ \/ pc'[t] = "open"
                         \/ call[t].nb /\ ret'[t] = "throw"
      ]_vars

\* a lock call is back at open after its flock was granted on a file that
\* its path no longer named; the path names a new file, locked by another
\* process
C29_RestartedAfterReplace ==
    \E t \in Threads :
        /\ pc[t] = "open"
        /\ call[t].desc = NoFd
        /\ dir[call[t].path] # 0
        /\ flk[dir[call[t].path]] # NoFd
        /\ flk[dir[call[t].path]][1] # ProcOf(t)

\* process p is between a completed lock of the path and the start of the
\* matching release: it has a live guard on a file that it locked through a
\* descriptor opened by the path, or that the path names
HoldsPath(p, path) ==
    \E e \in lockfiles[p] :
        /\ LiveGuards(p, e.key) >= 1
        /\ ofd[e.descriptor].path = path \/ dir[path] = e.key.inode

\* C30: with lockfiles that are unlinked by every final release while empty
\* and created again by the next lock, no two processes hold the same path
\* at the same time, and no two hold the same file.
C30_MutexAcrossRecreation ==
    \A p \in Procs : \A q \in Procs :
        p # q =>
            /\ \A path \in LockPaths : ~(HoldsPath(p, path) /\ HoldsPath(q, path))
            /\ \A i \in Inodes : ~(Registered(p, i) /\ Registered(q, i))

\* a process holds the file the path names now, a file created after the
\* first one was unlinked, while a waiter still has the unlinked file open
\* in front of flock
C30_WaiterOnUnlinkedFile ==
    \E t \in Threads : \E u \in Threads :
        /\ ProcOf(t) # ProcOf(u)
        /\ HasGuard(t)
        /\ HoldsPath(ProcOf(t), PathA)
        /\ dir[PathA] # 0
        /\ Len(content[dir[PathA]]) = 0
        /\ pc[u] = "flock"
        /\ call[u].path = PathA
        /\ ofd[call[u].desc].ino # dir[PathA]
        /\ NLink(dir, ofd[call[u].desc].ino) = 0

\* thread u is inside lock, waiting in flock(LOCK_EX) for a file that an
\* open file description of another process holds
BlockedInFlock(u) ==
    /\ pc[u] = "flock"
    /\ ~call[u].nb
    /\ ~FlockGranted(flk, call[u].desc, ofd[call[u].desc].ino)
    /\ \E q \in Procs \ {ProcOf(u)} :
           OwnedBy(q, flk[ofd[call[u].desc].ino])

\* C31: while a thread of a process is blocked in lock on a file another
\* process holds, any other thread of that process that is outside a call
\* can at once destroy a guard it holds, and can at once take a further
\* guard on a file its process has registered: neither has to wait.
C31_RegistryOpsNeverWait ==
    \A u \in Threads : \A t \in ThreadsOf(ProcOf(u)) \ {u} :
        (BlockedInFlock(u) /\ pc[t] = "idle") =>
            /\ \A g \in BagToSet(guards[t]) :
                   ENABLED (DestroyGuard(t, g) /\ UNCHANGED otherVars)
            /\ \A path \in ThreadPaths :
                   (/\ dir[path] # 0
                    /\ Contains(lockfiles[ProcOf(t)], Key(dir[path], Dev))
                    /\ BagCardinality(guards[t]) < MaxGuards)
                   => ENABLED (LockGuard(t, path, FALSE, FALSE)
                               /\ UNCHANGED otherVars)

\* C32: every entry of every registry has a count of at least 1 and a
\* descriptor that its process still has open, also after an unlock whose
\* release raised an error.
C32_EntriesCounted ==
    \A p \in Procs : \A e \in lockfiles[p] :
        e.num_locks >= 1 /\ OwnedBy(p, e.descriptor)

\* the descriptors process p has open
OpenFds(of, p) == {o \in Ofds : p \in of[o].refs}

\* C33: after every step, a process none of whose threads is inside lock
\* has each of its open descriptors stored in exactly one entry of its
\* registry, and an entry that the step erased from a registry has its
\* descriptor closed in that process.
C33_DescriptorsOwned ==
    [][\A p \in Procs :
          /\ (\A t \in ThreadsOf(p) : pc'[t] = "idle") =>
                 \A o \in OpenFds(ofd', p) :
                     Cardinality({e \in lockfiles'[p] : e.descriptor = o}) = 1
          /\ \A e \in lockfiles[p] :
                 ~Contains(lockfiles'[p], e.key) => e.descriptor \notin OpenFds(ofd', p)
      ]_vars

\* C34: in the filename-keyed locker every file named by a live guard (its
\* constructor has returned, its destructor has not begun) is registered by
\* the guard's process under a descriptor that holds the kernel lock, also
\* after a guard on the same file constructed later has been destroyed.
C34_LiveGuardHolds ==
    \A t \in Threads : \A g \in BagToSet(guards[t]) :
        \A k \in 1 .. Len(g.filenames) :
            HeldAndLocked(dir, ofd, flk, descriptors[ProcOf(t)], g.filenames[k])

\* C35: the step on which a multi-file try_lock returns false leaves every
\* name that was in the registry of the process when the call began still
\* in the registry, under a descriptor that holds the kernel lock.
C35_FailedTryLockKeepsHeld ==
    [][\A t \in Clients :
          (/\ call[t].op = "try_lock"
           /\ pc[t] # "idle"
           /\ pc'[t] = "idle"
           /\ ret'[t] \in {"false", "false_rolled_back"})
          => \A name \in call[t].before :
                 HeldAndLocked(dir', ofd', flk', descriptors'[ProcOf(t)], name)
      ]_vars

\* C36: once a try_lock(filenames[i]) inside the list form of try_lock has
\* returned false the call tries no further file, and the step that ends
\* such a call reports false and leaves no name in the registry that was
\* not there when the call began.
C36_ListStopsAtFirstRefusal ==
    [][\A t \in Clients :
          (call[t].op = "try_lock_list" /\ call[t].failed # 0) =>
              /\ pc'[t] # "try"
              /\ pc'[t] = "idle" =>
                     /\ ret'[t] = "false"
                     /\ {e.name : e \in descriptors'[ProcOf(t)]}
                            \subseteq call[t].before
      ]_vars

\* C37: a step in which a path stops naming a file is made by a release
\* whose entry has come to count zero, the path named the inode of that
\* entry, the file was empty, and the entry's descriptor holds the kernel
\* lock of the file before the step and still holds it, open, after it.
C37_UnlinkOwnEmptyLocked ==
    [][\A path \in Paths :
          (dir[path] # 0 /\ dir'[path] = 0) =>
              \E p \in Procs : \E e \in lockfiles[p] :
                  /\ e.key = Key(dir[path], Dev)
                  /\ ofd[e.descriptor].ino = dir[path]
                  /\ Len(content[dir[path]]) = 0
                  /\ \E e1 \in lockfiles'[p] : e1.key = e.key /\ e1.num_locks = 0
                  /\ flk[dir[path]] = e.descriptor
                  /\ flk'[dir[path]] = e.descriptor
                  /\ p \in ofd'[e.descriptor].refs
      ]_vars

\* a release has unlinked its file and not yet closed the descriptor, while
\* another process waits in flock for the same file
C37_UnlinkedBeforeClose ==
    \E t \in Threads : \E u \in Threads \ {t} :
        /\ pc[t] = "release2"
        /\ call[t].op = "release_empty"
        /\ dir[call[t].path] = 0
        /\ pc[u] = "flock"
        /\ ofd[call[u].desc].ino = ofd[call[t].desc].ino

\* C38: for every open view the length given to mmap, msync and munmap is
\* size() times the element width, and every element with an index below
\* size() ends inside the pages that are mapped.
C38_RegionCoversElements ==
    \A t \in Threads : \A v \in BagToSet(views[t]) :
        /\ MapLength(v) = v.data_size * v.width
        /\ \A i \in 0 .. v.data_size - 1 : (i + 1) * v.width <= MappedBytes(v)

\* the file of the descriptor that thread t is about to flock is locked by
\* an open file description of another process
HeldByOther(t) ==
    LET i == ofd[call[t].desc].ino IN
    flk[i] # NoFd /\ ProcOf(t) \notin ofd[flk[i]].refs

\* process p has path registered as its own
HeldByOwn(p, path) ==
    /\ dir[path] # 0
    /\ \E e \in lockfiles[p] : e.key = Key(dir[path], Dev) /\ e.pid = Pid(p)

\* C39: a non-blocking lock_guard that comes to flock while another process
\* holds the file can always take its step, and that step raises an error,
\* closes the descriptor the call opened and leaves registry and guards as
\* they were; a non-blocking lock_guard on a file its own process has
\* registered returns with the count one higher and a new guard.
C39_NonBlockingGuard ==
    [][\A t \in ThreadCallers :
          /\ (pc[t] = "flock" /\ call[t].nb /\ HeldByOther(t)) =>
                 ENABLED (LockFlock(t) /\ UNCHANGED otherVars)
          /\ (LockFlock(t) /\ call[t].nb /\ HeldByOther(t)) =>
                 /\ pc'[t] = "idle"
                 /\ ret'[t] = "throw"
                 /\ ProcOf(t) \notin ofd'[call[t].desc].refs
                 /\ lockfiles' = lockfiles
                 /\ guards' = guards
          /\ \A path \in ThreadPaths :
                 (LockGuard(t, path, TRUE, FALSE) /\ HeldByOwn(ProcOf(t), path)) =>
                     LET id == Key(dir[path], Dev)
                         p == ProcOf(t)
                     IN
                     /\ pc'[t] = "idle"
                     /\ ret'[t] = "counted"
                     /\ At(lockfiles'[p], id).num_locks = At(lockfiles[p], id).num_locks + 1
                     /\ At(lockfiles'[p], id).descriptor = At(lockfiles[p], id).descriptor
                     /\ OpenFds(ofd', p) = OpenFds(ofd, p)
                     /\ BagCardinality(guards'[t]) = BagCardinality(guards[t]) + 1
      ]_vars

\* a non-blocking lock_guard of one process was refused and left nothing
\* behind, while a thread of the other process holds a file twice
C39_RefusedAndCounted ==
    \E t \in Threads : \E u \in Threads :
        /\ ProcOf(t) # ProcOf(u)
        /\ pc[t] = "idle" /\ ret[t] = "throw"
        /\ OpenFds(ofd, ProcOf(t)) = {}
        /\ lockfiles[ProcOf(t)] = {}
        /\ ret[u] = "counted"
        /\ \E e \in lockfiles[ProcOf(u)] :
               e.num_locks = 2 /\ flk[e.key.inode] = e.descriptor

\* a step creates the file that path names after it
Creates(path) == dir[path] = 0 /\ dir'[path] # 0

\* C40, as the code has it: a lockfile that lock creates gets the
\* permission bits 0666 whatever the umask of the process, and the umask of
\* the process is after the call what it was before.
C40_CreatedModeIgnoresUmask ==
    [][\A path \in Paths :
          Creates(path) => mode'[dir'[path]] = OpenMode /\ umask' = umask
      ]_vars

\* a lockfile exists with the bits 0666 although the umask of the processes
\* takes some of these bits away
C40_CreatedUnderMask ==
    \E path \in Paths : \E p \in Clients :
        /\ dir[path] # 0
        /\ mode[dir[path]] = OpenMode
        /\ AndNot(OpenMode, umask[p]) # OpenMode

\* C40, as stated: a lockfile that lock creates gets the bits of 0666 that
\* are not in the umask of the process, for every umask.
C40_CreatedModeMasked ==
    [][\A path \in Paths : \A p \in Clients :
          (Creates(path) /\ OpenFds(ofd', p) # OpenFds(ofd, p)) =>
              mode'[dir'[path]] = AndNot(OpenMode, umask[p])
      ]_vars

====
